---- MODULE Spec2Model ----
(***************************************************************************)
(* Card Registration/Update Engine of data-interpret-kit                   *)
(* (server/src/vaultRegistrar.js and the vault endpoints of                *)
(* server/src/server.js).                                                  *)
(*                                                                         *)
(* JavaScript strings are modelled as sequences of one-character strings;  *)
(* a token of more than one character inside a sequence stands for a fixed *)
(* literal of the program whose characters never matter.  The JavaScript   *)
(* values that are not strings are the one-token sequences Undef           *)
(* (undefined), Null (null) and Num0 (the number 0, which a spreadsheet    *)
(* reader returns for a numeric cell holding 0).                           *)
(***************************************************************************)
EXTENDS Integers, Sequences, FiniteSets, TLC

\* ------------------------------------------------------------------ bounds
MaxRows == 2

\* ------------------------------------------------------- program constants
DEFAULT_ACCESS_LEVEL == <<"0", "0">>
DEFAULT_FACE_ACCESS_LEVEL == <<"0", "0">>
DEFAULT_LIFT_ACCESS_LEVEL == <<"0", "0">>
CardNoMax == 10

\* --------------------------------------------------------- JavaScript values
Undef == <<"undefined">>
Null == <<"null">>
Num0 == <<"num0">>

\* JavaScript truthiness of a cell value: undefined, null, 0 and "" are falsy.
Truthy(v) == v \notin {Undef, Null, Num0, <<>>}

\* a || b
Or(a, b) == IF Truthy(a) THEN a ELSE b

\* String(v) for the values of the model.
String(v) == IF v = Num0 THEN <<"0">> ELSE v

IsSpace(c) == c = " "

RECURSIVE TrimLeft(_)
TrimLeft(str) ==
  IF str = <<>> THEN <<>>
  ELSE IF IsSpace(Head(str)) THEN TrimLeft(Tail(str)) ELSE str

RECURSIVE TrimRight(_)
TrimRight(str) ==
  IF str = <<>> THEN <<>>
  ELSE IF IsSpace(str[Len(str)]) THEN TrimRight(SubSeq(str, 1, Len(str) - 1)) ELSE str

\* String.prototype.trim
Trim(str) == TrimRight(TrimLeft(str))

\* String.prototype.substring(0, n)
Substring0(str, n) == SubSeq(str, 1, IF Len(str) < n THEN Len(str) ELSE n)

LowerChar(c) ==
  CASE c = "L" -> "l"
    [] c = "M" -> "m"
    [] c = "N" -> "n"
    [] c = "A" -> "a"
    [] OTHER -> c

\* String.prototype.toLowerCase
ToLowerCase(str) == [k \in 1..Len(str) |-> LowerChar(str[k])]

\* s(val, def = ''): safe string trimming and defaulting
s(val) == IF val \in {Undef, Null} THEN <<>> ELSE Trim(String(val))

\* ------------------------------------------------------------------ headers
CardNoHeaders == <<"Card No #[Max 10]", "Card No [Max 10]", "Card No", "CardNo", "Card Number">>
StaffNoHeaders == <<"Staff No [Max 15]", "Staff No. [Max 10]", "Emp. No", "Employee ID", "ID", "NIK">>
NameHeaders == <<"Card Name [Max 50]", "Card Name", "Name", "Employee Name", "Employee", "Nama">>
DepartmentHeaders == <<"Department [Max 50]", "Department", "Departement", "Dept">>
CompanyHeaders == <<"Company [Max 50]", "Company">>
EmailHeaders == <<"Email [Max 50]", "Email", "Email Address">>
MobileHeaders == <<"Mobile No. [Max 20]", "Mobile No", "Phone">>
FaceHeaders == <<"Face Access Level [Max 3]", "Face Access Level", "FaceAccessLevel">>
LiftHeaders == <<"Lift Access Level [Max 3]", "Lift Access Level", "LiftAccessLevel">>
AccessHeaders == <<"Access Level [Max 3]", "Access Level", "AccessLevel">>
MessHallHeaders == <<"MessHall", "Mess Hall">>

Range(f) == {f[k] : k \in DOMAIN f}

Headers ==
  Range(CardNoHeaders) \cup Range(StaffNoHeaders) \cup Range(NameHeaders)
  \cup Range(DepartmentHeaders) \cup Range(CompanyHeaders) \cup Range(EmailHeaders)
  \cup Range(MobileHeaders) \cup Range(FaceHeaders) \cup Range(LiftHeaders)
  \cup Range(AccessHeaders) \cup Range(MessHallHeaders)

\* row[h]: a raw row is a function from the headers of its sheet to cell
\* values; reading a header the sheet does not have gives undefined.
Cell(row, h) == IF h \in DOMAIN row THEN row[h] ELSE Undef

\* row[h1] || row[h2] || ... || last : the first truthy operand, else the last one.
RECURSIVE OrChain(_, _, _)
OrChain(row, hs, last) ==
  IF hs = <<>> THEN last
  ELSE IF Truthy(Cell(row, Head(hs))) THEN Cell(row, Head(hs))
  ELSE OrChain(row, Tail(hs), last)

\* the chain without a trailing literal: its last operand is the last header.
OrHeaders(row, hs) == OrChain(row, SubSeq(hs, 1, Len(hs) - 1), Cell(row, hs[Len(hs)]))

DefaultCompany == <<"Merdeka Tsingsan Indonesia">>
Labota == <<"l", "a", "b", "o", "t", "a">>
Makarti == <<"m", "a", "k", "a", "r", "t", "i">>

\* ------------------------------------------------------------ ProfileMapper
ExplicitAccess(row) == s(OrHeaders(row, AccessHeaders))
ExplicitFace(row) == s(OrChain(row, FaceHeaders, <<>>))
ExplicitLift(row) == s(OrChain(row, LiftHeaders, <<>>))
MessHallOf(row) == Trim(ToLowerCase(s(OrChain(row, MessHallHeaders, <<>>))))

\* variant: the MessHall level takes precedence over the explicit value
DeriveAccess_MessHallFirst(explicit, messHall) ==
  IF messHall = Labota THEN <<"1">>
  ELSE IF messHall = Makarti THEN <<"2">>
  ELSE explicit

DeriveAccess(explicit, messHall) ==
  IF explicit # <<>> THEN explicit
  ELSE IF messHall = Labota THEN <<"1">>
  ELSE IF messHall = Makarti THEN <<"2">>
  ELSE <<>>

AccessLevelOf(row) ==
  LET derived == DeriveAccess(ExplicitAccess(row), MessHallOf(row))
  IN IF derived = <<>> THEN DEFAULT_ACCESS_LEVEL ELSE derived

FaceAccessLevelOf(row) ==
  IF ExplicitFace(row) = <<>> THEN DEFAULT_FACE_ACCESS_LEVEL ELSE ExplicitFace(row)

LiftAccessLevelOf(row) ==
  IF ExplicitLift(row) = <<>> THEN DEFAULT_LIFT_ACCESS_LEVEL ELSE ExplicitLift(row)

\* variant: an empty card number falls back to the staff number
CardNoOf_StaffFallback(row) ==
  Substring0(Or(s(OrHeaders(row, CardNoHeaders)), s(OrHeaders(row, StaffNoHeaders))), CardNoMax)

\* cardNo = (cardNoRaw || '').substring(0, 10): no fallback to the staff number
CardNoOf(row) == Substring0(s(OrHeaders(row, CardNoHeaders)), CardNoMax)

mapRowToProfile(row) ==
  [ CardNo |-> CardNoOf(row),
    StaffNo |-> s(OrHeaders(row, StaffNoHeaders)),
    Name |-> s(OrHeaders(row, NameHeaders)),
    Department |-> s(OrHeaders(row, DepartmentHeaders)),
    Company |-> s(OrChain(row, CompanyHeaders, DefaultCompany)),
    AccessLevel |-> AccessLevelOf(row),
    FaceAccessLevel |-> FaceAccessLevelOf(row),
    LiftAccessLevel |-> LiftAccessLevelOf(row),
    Email |-> s(OrChain(row, EmailHeaders, <<>>)),
    MobileNo |-> s(OrChain(row, MobileHeaders, <<>>)),
    ActiveStatus |-> "true",
    NonExpired |-> "true",
    ExpiredDate |-> <<>>,
    DownloadCard |-> "true",
    Photo |-> Null ]

\* ------------------------------------------------------------ PhotoResolver
JPG == ".jpg"
JPEG == ".jpeg"
PNG == ".png"
Exts == <<JPG, JPEG, PNG>>

\* `${base}.jpg`, `${base}.jpeg`, `${base}.png`
NamesFor(base) == [k \in 1..3 |-> base \o <<Exts[k]>>]

\* variant: the StaffNo filenames are tried before the CardNo filenames
PhotoCandidates_StaffFirst(profile) ==
  (IF Truthy(profile.StaffNo) THEN NamesFor(profile.StaffNo) ELSE <<>>)
  \o (IF Truthy(profile.CardNo) THEN NamesFor(profile.CardNo) ELSE <<>>)

\* the candidate filenames, CardNo first and StaffNo after
PhotoCandidates(profile) ==
  (IF Truthy(profile.CardNo) THEN NamesFor(profile.CardNo) ELSE <<>>)
  \o (IF Truthy(profile.StaffNo) THEN NamesFor(profile.StaffNo) ELSE <<>>)

\* Buffer.toString('base64'): empty for an empty file
Base64(bytes) == IF bytes = <<>> THEN <<>> ELSE <<"base64">> \o bytes

RECURSIVE FirstExisting(_, _)
FirstExisting(dir, cands) ==
  IF cands = <<>> THEN Undef
  ELSE IF Head(cands) \in DOMAIN dir THEN Head(cands)
  ELSE FirstExisting(dir, Tail(cands))

\* tryAttachPhoto: the profile after the call and the boolean it returns
tryAttachPhoto(dir, profile) ==
  LET hit == FirstExisting(dir, PhotoCandidates(profile))
  IN IF hit = Undef
     THEN [profile |-> profile, hasPhoto |-> FALSE]
     ELSE [profile |-> [profile EXCEPT !.Photo = Base64(dir[hit])], hasPhoto |-> TRUE]

\* the files tryAttachPhoto hands to fs.readFileSync: the first candidate that
\* exists
tryAttachPhotoReads(dir, profile) ==
  LET hit == FirstExisting(dir, PhotoCandidates(profile))
  IN IF hit = Undef THEN <<>> ELSE <<hit>>

\* variant: only the files named after the CardNo are looked for
photoExists_CardOnly(dir, cardNo, staffNo) ==
  FirstExisting(dir, IF Truthy(cardNo) THEN NamesFor(cardNo) ELSE <<>>) # Undef

\* photoExists(outputDir, cardNo, staffNo): the boolean it returns
photoExists(dir, cardNo, staffNo) ==
  LET candidates == (IF Truthy(cardNo) THEN NamesFor(cardNo) ELSE <<>>)
                    \o (IF Truthy(staffNo) THEN NamesFor(staffNo) ELSE <<>>)
  IN FirstExisting(dir, candidates) # Undef

\* the files photoExists hands to fs.readFileSync: it only calls fs.existsSync
photoExistsReads(dir, cardNo, staffNo) == <<>>

\* ----------------------------------------------------------- EnvelopeBuilder
EscapeChar(c) ==
  CASE c = "&" -> <<"&", "a", "m", "p", ";">>
    [] c = "<" -> <<"&", "l", "t", ";">>
    [] c = ">" -> <<"&", "g", "t", ";">>
    [] c = "\"" -> <<"&", "q", "u", "o", "t", ";">>
    [] c = "'" -> <<"&", "a", "p", "o", "s", ";">>
    [] OTHER -> <<c>>

\* variant: the angle brackets are not escaped
RECURSIVE escapeXml_NoAngle(_)
escapeXml_NoAngle(unsafe) ==
  IF unsafe \in {Undef, Null} \/ unsafe = <<>> THEN <<>>
  ELSE (IF Head(unsafe) \in {"<", ">"} THEN <<Head(unsafe)>> ELSE EscapeChar(Head(unsafe)))
       \o escapeXml_NoAngle(Tail(unsafe))

RECURSIVE escapeXml(_)
escapeXml(unsafe) ==
  IF unsafe \in {Undef, Null} \/ unsafe = <<>> THEN <<>>
  ELSE EscapeChar(Head(unsafe)) \o escapeXml(Tail(unsafe))

\* the Photo element: '<Photo />' when profile.Photo is falsy
PhotoTag(profile) ==
  IF Truthy(profile.Photo) THEN [empty |-> FALSE, text |-> escapeXml(profile.Photo)]
  ELSE [empty |-> TRUE, text |-> <<>>]

\* buildAddCardEnvelope: the elements of the envelope that the profile fills
buildAddCardEnvelope(profile) ==
  [ action |-> "AddCard",
    CardNo |-> escapeXml(profile.CardNo),
    Name |-> escapeXml(profile.Name),
    Department |-> escapeXml(profile.Department),
    Company |-> escapeXml(profile.Company),
    AccessLevel |-> escapeXml(profile.AccessLevel),
    FaceAccessLevel |-> escapeXml(profile.FaceAccessLevel),
    LiftAccessLevel |-> escapeXml(profile.LiftAccessLevel),
    ActiveStatus |-> profile.ActiveStatus,
    NonExpired |-> profile.NonExpired,
    ExpiredDate |-> escapeXml(profile.ExpiredDate),
    StaffNo |-> escapeXml(profile.StaffNo),
    Email |-> escapeXml(profile.Email),
    MobileNo |-> escapeXml(profile.MobileNo),
    Photo |-> PhotoTag(profile),
    DownloadCard |-> profile.DownloadCard ]

\* redactEnvelope: the content of a <Photo>...</Photo> element is replaced
redactEnvelope(envelope) ==
  IF envelope.Photo.empty THEN envelope
  ELSE [envelope EXCEPT !.Photo = [empty |-> FALSE, text |-> <<"[redacted]">>]]

\* --------------------------------------------------------------- VaultClient
\* Number(str) of JavaScript for the response codes of the model: surrounding
\* white space is ignored, the empty string is 0, an optional sign and decimal
\* digits give an integer, anything else is NaN.
Digits == {"0", "1", "2", "3", "4", "5", "6", "7", "8", "9"}

DigitVal(c) ==
  CASE c = "0" -> 0 [] c = "1" -> 1 [] c = "2" -> 2 [] c = "3" -> 3 [] c = "4" -> 4
    [] c = "5" -> 5 [] c = "6" -> 6 [] c = "7" -> 7 [] c = "8" -> 8 [] OTHER -> 9

RECURSIVE DecimalVal(_)
DecimalVal(ds) ==
  IF ds = <<>> THEN 0 ELSE 10 * DecimalVal(SubSeq(ds, 1, Len(ds) - 1)) + DigitVal(ds[Len(ds)])

AllDigits(ds) == ds # <<>> /\ \A k \in 1..Len(ds) : ds[k] \in Digits

NaN == [nan |-> TRUE, val |-> 0]
Num(n) == [nan |-> FALSE, val |-> n]

JsNumber(str) ==
  LET t == Trim(str)
  IN IF t = <<>> THEN Num(0)
     ELSE IF AllDigits(t) THEN Num(DecimalVal(t))
     ELSE IF Head(t) = "-" /\ AllDigits(Tail(t)) THEN Num(0 - DecimalVal(Tail(t)))
     ELSE IF Head(t) = "+" /\ AllDigits(Tail(t)) THEN Num(DecimalVal(Tail(t)))
     ELSE NaN

\* errCodeNum = resp.errCode !== undefined ? Number(resp.errCode) : NaN
ErrCodeNum(errCode) == IF errCode = Undef THEN NaN ELSE JsNumber(errCode)

Http2xx(httpStatus) == httpStatus >= 200 /\ httpStatus < 300

\* bizSuccess: HTTP 2xx and ErrCode 0 or 1
BizSuccess(resp) ==
  Http2xx(resp.httpStatus)
  /\ ~ErrCodeNum(resp.errCode).nan
  /\ ErrCodeNum(resp.errCode).val \in {0, 1}

\* ----------------------------------------------------------- OverrideApplier
\* An entry of the overrides array of a request.  indexIsNumber is
\* typeof o.index === 'number'; cardNo is a string or Undef; downloadCard is
\* "true", "false" or "absent" (typeof o.downloadCard !== 'boolean').
MkOverride(isNum, idx, cardNo, dl) ==
  [indexIsNumber |-> isNum, index |-> idx, cardNo |-> cardNo, downloadCard |-> dl]

\* cardNoVal = typeof o.cardNo === 'string' ? o.cardNo.trim().substring(0, 10) : undefined
OverrideCardNoVal(o) ==
  IF o.cardNo = Undef THEN Undef ELSE Substring0(Trim(o.cardNo), CardNoMax)

\* variant: a later entry for an index is merged into the earlier one, a field
\* it does not carry keeps the earlier value
RECURSIVE BuildOverrideMap_Merge(_)
BuildOverrideMap_Merge(ovs) ==
  IF ovs = <<>> THEN <<>>
  ELSE LET rest == BuildOverrideMap_Merge(SubSeq(ovs, 1, Len(ovs) - 1))
           o == ovs[Len(ovs)]
           had == o.index \in DOMAIN rest
           item == [cardNo |-> IF OverrideCardNoVal(o) = Undef /\ had
                               THEN rest[o.index].cardNo ELSE OverrideCardNoVal(o),
                    downloadCard |-> IF o.downloadCard = "absent" /\ had
                                     THEN rest[o.index].downloadCard ELSE o.downloadCard]
       IN IF o.indexIsNumber
          THEN [k \in (DOMAIN rest) \cup {o.index} |-> IF k = o.index THEN item ELSE rest[k]]
          ELSE rest

\* the Map built from the overrides array: a later entry replaces an earlier one
RECURSIVE BuildOverrideMap(_)
BuildOverrideMap(ovs) ==
  IF ovs = <<>> THEN <<>>
  ELSE LET rest == BuildOverrideMap(SubSeq(ovs, 1, Len(ovs) - 1))
           o == ovs[Len(ovs)]
           item == [cardNo |-> OverrideCardNoVal(o), downloadCard |-> o.downloadCard]
       IN IF o.indexIsNumber
          THEN [k \in (DOMAIN rest) \cup {o.index} |-> IF k = o.index THEN item ELSE rest[k]]
          ELSE rest

\* variant: the downloadCard of an override is applied without the
\* undefined check, so an override without downloadCard sets it to 'false'
ApplyOverride_AlwaysDownload(profile, map, idx) ==
  IF idx \notin DOMAIN map THEN profile
  ELSE LET item == map[idx]
           p1 == IF item.cardNo # Undef
                 THEN [profile EXCEPT !.CardNo = Or(item.cardNo, <<>>)]
                 ELSE profile
       IN [p1 EXCEPT !.DownloadCard = IF item.downloadCard = "true" THEN "true" ELSE "false"]

\* variant: an override whose cardNo is empty after trimming leaves the mapped
\* CardNo in place
ApplyOverride_KeepOnEmpty(profile, map, idx) ==
  IF idx \notin DOMAIN map THEN profile
  ELSE LET item == map[idx]
           p1 == IF Truthy(item.cardNo)
                 THEN [profile EXCEPT !.CardNo = item.cardNo]
                 ELSE profile
       IN IF item.downloadCard # "absent"
          THEN [p1 EXCEPT !.DownloadCard = item.downloadCard]
          ELSE p1

\* the override step of one loop iteration
ApplyOverride(profile, map, idx) ==
  IF idx \notin DOMAIN map THEN profile
  ELSE LET item == map[idx]
           p1 == IF item.cardNo # Undef
                 THEN [profile EXCEPT !.CardNo = Or(item.cardNo, <<>>)]
                 ELSE profile
       IN IF item.downloadCard # "absent"
          THEN [p1 EXCEPT !.DownloadCard = item.downloadCard]
          ELSE p1

\* ---------------------------------------------------------- ExecutionEngine
VARIABLES
  dirExists,    \* the output directory exists
  csvExists,    \* the explicit CSV file exists
  rows,         \* the raw rows of the source, in order
  files,        \* the photo files of the lookup directory: name -> bytes
  mode,         \* the entry point that is running: "none", "job" or "csv"
  pc,           \* "idle", "loop", "awaiting" or "done"
  i,            \* the loop index (zero-based, as in the code)
  overrideMap,  \* the override map of the running call
  profile,      \* the profile of the row whose request is in flight
  hasPhoto,     \* the photo result of that row
  result,       \* the result object of the running call
  jsonLog,      \* vault-registration-log.jsonl, one record per line
  textLog,      \* vault-registration.log, one record per line
  httpLog,      \* the requests that reached fetch(), in order
  previewOut,   \* the value the last preview call returned (ran FALSE if none)
  snap,         \* history: the result object when the current iteration began
  hist,         \* history: what each finished loop iteration did
  updateLog,    \* vault-update-log.jsonl, one record per line
  inflight,     \* update batch: row index -> the row state whose request is in flight
  concurrency,  \* update batch: the worker count the caller gave (0 if none)
  overrides,    \* the overrides array of the running call
  progress,     \* the last answer of the progress query (asked FALSE if none)
  ui,           \* the update page: handleExecuteUpdate and its progress poll
  logText,      \* vault-update-log.jsonl as the text a query reads, line by line
  response      \* the HTTP answer of the batch endpoint (sent FALSE if none)

vars == <<dirExists, csvExists, rows, files, mode, pc, i, overrideMap, profile,
          hasPhoto, result, jsonLog, textLog, httpLog, previewOut, snap, hist,
          updateLog, inflight, concurrency, overrides, progress, ui, logText, response>>

\* the state of the progress query and of the update page
client == <<progress, ui, logText, response>>

\* the state only the update batch touches
pool == <<updateLog, inflight, concurrency>>

inputs == <<dirExists, csvExists, rows, files>>

NewResult ==
  [attempted |-> 0, registered |-> 0, withPhoto |-> 0, withoutPhoto |-> 0,
   errors |-> <<>>, details |-> <<>>]

\* event names of registerCsvPathToVault carry the suffix _csv
Ev(m, name) == IF m = "csv" THEN name \o "_csv" ELSE name

NoProfile == [CardNo |-> <<>>]
NoProgress == [asked |-> FALSE]
NoResponse == [sent |-> FALSE]
UiIdle == [pc |-> "idle", stopPolling |-> FALSE, interval |-> FALSE, polls |-> 0]
NoPreview == [ran |-> FALSE, result |-> NewResult]

\* ------------------------------------------------------- inputs of the model
CardC1 == <<"C", "1">>
CardC2 == <<"C", "2">>
StaffS1 == <<"S", "1">>
Long11 == <<"1", "2", "3", "4", "5", "6", "7", "8", "9", "0", "X">>
NameA == <<"A">>

RowWithCard == ("Card No #[Max 10]" :> CardC1 @@ "Card Name [Max 50]" :> NameA)
RowNoCard == ("Card No #[Max 10]" :> <<>> @@ "Staff No [Max 15]" :> StaffS1
              @@ "Name" :> NameA)
RowLongCard == ("CardNo" :> (<<" ">> \o Long11 \o <<" ">>) @@ "Employee ID" :> StaffS1)

BatchRows == {RowWithCard, RowNoCard, RowLongCard}

RowSeqs == UNION {[1..n -> BatchRows] : n \in 0..MaxRows}

PhotoBytes == <<"bytes">>
NoFiles == <<>>
SomeFiles == (CardC1 \o <<JPG>>) :> PhotoBytes @@ (StaffS1 \o <<PNG>>) :> PhotoBytes
FileSets == {NoFiles, SomeFiles}

OverrideLists ==
  { <<>>,
    <<MkOverride(TRUE, 0, <<" ">>, "absent")>>,
    <<MkOverride(TRUE, 0, <<" ">> \o Long11, "false")>>,
    <<MkOverride(TRUE, 1, CardC2, "absent")>> }

\* What the endpoint does with one request: fetch() throws, or a response
\* arrives with an HTTP status and a body in which <ErrCode> is found or not.
Threw == [threw |-> TRUE, httpStatus |-> 0, errCode |-> Undef]
Resp(st, code) == [threw |-> FALSE, httpStatus |-> st, errCode |-> code]
ErrCodes == {Undef, <<>>, <<"0">>, <<"1">>, <<"0", "0">>, <<" ", "1">>, <<"-", "1">>}
Responses ==
  {Threw} \cup {Resp(200, c) : c \in ErrCodes}
  \cup {Resp(199, <<"0">>), Resp(299, <<"1">>), Resp(300, <<"0">>), Resp(500, Undef)}
\* one response of each class, for the rows after the first
ClassResponses == {Threw, Resp(200, <<"0">>), Resp(200, <<"-", "1">>), Resp(500, Undef)}
ResponsesFor(idx) == IF idx = 0 THEN Responses ELSE ClassResponses

\* ------------------------------------------------------------------ Init
\* no call is running and nothing has been written or sent
InitEngine ==
  /\ mode = "none"
  /\ pc = "idle"
  /\ i = 0
  /\ overrideMap = <<>>
  /\ profile = NoProfile
  /\ hasPhoto = FALSE
  /\ result = NewResult
  /\ jsonLog = <<>>
  /\ textLog = <<>>
  /\ httpLog = <<>>
  /\ previewOut = NoPreview
  /\ snap = NewResult
  /\ hist = <<>>
  /\ updateLog = <<>>
  /\ inflight = <<>>
  /\ concurrency = 0
  /\ overrides = <<>>
  /\ progress = NoProgress
  /\ ui = UiIdle
  /\ logText = <<>>
  /\ response = NoResponse

Init ==
  /\ dirExists \in BOOLEAN
  /\ csvExists \in BOOLEAN
  /\ rows \in RowSeqs
  /\ files \in FileSets
  /\ (~dirExists => ~csvExists)
  /\ (~csvExists => (rows = <<>> /\ files = NoFiles))
  /\ InitEngine

\* errors.push / details.push / counters
PushError(res, e) == [res EXCEPT !.errors = Append(@, e)]
PushDetail(res, d) == [res EXCEPT !.details = Append(@, d)]

\* variant: the explicit file is not checked, so a missing file reads as a
\* source without rows
Begin_NoCsvCheck(m, ovs) ==
  /\ pc = "idle"
  /\ mode' = m
  /\ i' = 0
  /\ UNCHANGED <<inputs, httpLog, previewOut, profile, hasPhoto, snap, hist>>
  /\ IF ~dirExists
     THEN /\ result' = PushError(NewResult, [code |-> "OUTPUT_NOT_FOUND"])
          /\ pc' = "done"
          /\ UNCHANGED <<jsonLog, textLog, overrideMap>>
     ELSE IF rows = <<>>
     THEN /\ result' = PushError(NewResult, [code |-> "NO_ROWS"])
          /\ pc' = "done"
          /\ textLog' = textLog \o <<[line |-> "start"], [line |-> "defaults"],
                                     [line |-> "no_rows"]>>
          /\ jsonLog' = jsonLog \o <<[event |-> Ev(m, "start"), overridesCount |-> Len(ovs)],
                                     [event |-> Ev(m, "no_rows")]>>
          /\ UNCHANGED overrideMap
     ELSE /\ result' = NewResult
          /\ overrideMap' = BuildOverrideMap(ovs)
          /\ pc' = "loop"
          /\ textLog' = textLog \o <<[line |-> "start"], [line |-> "defaults"],
                                     [line |-> "override_map_ready"]>>
          /\ jsonLog' = jsonLog \o
               <<[event |-> Ev(m, "start"), overridesCount |-> Len(ovs)],
                 [event |-> Ev(m, "override_map_ready"),
                  count |-> Cardinality(DOMAIN BuildOverrideMap(ovs))]>>
  /\ UNCHANGED pool
  /\ overrides' = ovs
  /\ UNCHANGED client

\* registerJobToVault / registerCsvPathToVault up to the start of the loop
Begin(m, ovs) ==
  /\ pc = "idle"
  /\ mode' = m
  /\ i' = 0
  /\ UNCHANGED <<inputs, httpLog, previewOut, profile, hasPhoto, snap, hist>>
  /\ IF ~dirExists
     THEN /\ result' = PushError(NewResult, [code |-> "OUTPUT_NOT_FOUND"])
          /\ pc' = "done"
          /\ UNCHANGED <<jsonLog, textLog, overrideMap>>
     ELSE IF m = "csv" /\ ~csvExists
     THEN /\ result' = PushError(NewResult, [code |-> "CSV_NOT_FOUND"])
          /\ pc' = "done"
          /\ UNCHANGED <<jsonLog, textLog, overrideMap>>
     ELSE IF rows = <<>>
     THEN /\ result' = PushError(NewResult, [code |-> "NO_ROWS"])
          /\ pc' = "done"
          /\ textLog' = textLog \o <<[line |-> "start"], [line |-> "defaults"],
                                     [line |-> "no_rows"]>>
          /\ jsonLog' = jsonLog \o <<[event |-> Ev(m, "start"), overridesCount |-> Len(ovs)],
                                     [event |-> Ev(m, "no_rows")]>>
          /\ UNCHANGED overrideMap
     ELSE /\ result' = NewResult
          /\ overrideMap' = BuildOverrideMap(ovs)
          /\ pc' = "loop"
          /\ textLog' = textLog \o <<[line |-> "start"], [line |-> "defaults"],
                                     [line |-> "override_map_ready"]>>
          /\ jsonLog' = jsonLog \o
               <<[event |-> Ev(m, "start"), overridesCount |-> Len(ovs)],
                 [event |-> Ev(m, "override_map_ready"),
                  count |-> Cardinality(DOMAIN BuildOverrideMap(ovs))]>>
  /\ UNCHANGED pool
  /\ overrides' = ovs
  /\ UNCHANGED client

\* what one finished iteration did, read off the result object
HistEntry(idx, prof, wasSent, resp, before, after) ==
  [ index |-> idx,
    cardNo |-> prof.CardNo,
    sent |-> wasSent,
    resp |-> resp,
    attempted |-> after.attempted - before.attempted,
    registered |-> after.registered - before.registered,
    photoCounted |-> (after.withPhoto + after.withoutPhoto)
                     - (before.withPhoto + before.withoutPhoto),
    errors |-> SubSeq(after.errors, Len(before.errors) + 1, Len(after.errors)),
    details |-> SubSeq(after.details, Len(before.details) + 1, Len(after.details)) ]

\* variant: the check only catches an undefined CardNo, not an empty one
CardNoMissing_UndefOnly(prof) == prof.CardNo = Undef

\* `if (!profile.CardNo)`: the required CardNo is missing
CardNoMissing(prof) == ~Truthy(prof.CardNo)

\* variant: the skipped row is put in details[] but no error is pushed
SkipResult_NoError(res, idx, prof) ==
  PushDetail(res, [cardNo |-> <<>>, name |-> prof.Name, hasPhoto |-> FALSE,
                   respCode |-> <<"CARD_NO_MISSING">>])

\* variant: the skipped row is counted as a row without photo
SkipResult_CountsWithoutPhoto(res, idx, prof) ==
  PushDetail(
    PushError([res EXCEPT !.withoutPhoto = @ + 1],
              [code |-> "CARD_NO_MISSING", index |-> idx, name |-> prof.Name]),
    [cardNo |-> <<>>, name |-> prof.Name, hasPhoto |-> FALSE,
     respCode |-> <<"CARD_NO_MISSING">>])

\* the result object after the CARD_NO_MISSING branch
SkipResult(res, idx, prof) ==
  PushDetail(
    PushError(res, [code |-> "CARD_NO_MISSING", index |-> idx, name |-> prof.Name]),
    [cardNo |-> <<>>, name |-> prof.Name, hasPhoto |-> FALSE,
     respCode |-> <<"CARD_NO_MISSING">>])

\* variant: the body is looked at first, a response carrying a code is a
\* business error whatever its HTTP status
ErrorCodeFor_BodyFirst(resp) ==
  IF resp.errCode # Undef THEN "VAULT_ERROR" ELSE "HTTP_ERROR"

\* the error code of a response that is not a business success
ErrorCodeFor(resp) == IF ~Http2xx(resp.httpStatus) THEN "HTTP_ERROR" ELSE "VAULT_ERROR"

\* the result object after the try block handled a response
ResponseResult(res, prof, hp, resp) ==
  PushDetail(
    IF BizSuccess(resp)
    THEN [res EXCEPT !.registered = @ + 1]
    ELSE IF ErrorCodeFor(resp) = "HTTP_ERROR"
    THEN PushError(res, [code |-> "HTTP_ERROR", cardNo |-> prof.CardNo])
    ELSE PushError(res, [code |-> "VAULT_ERROR", cardNo |-> prof.CardNo,
                         errCode |-> resp.errCode]),
    [cardNo |-> prof.CardNo, name |-> prof.Name, hasPhoto |-> hp,
     respCode |-> resp.errCode])

\* the result object after the catch block
CatchResult(res, prof) == PushError(res, [code |-> "REQUEST_FAILED", cardNo |-> prof.CardNo])

\* variant: the exception leaves the loop and ends the run
AfterCatch_Abort == "done"

\* where the run is after the catch block: the exception is swallowed and the
\* for loop goes on with the next row
AfterCatch == "loop"

\* events and lines one iteration writes before the CardNo check
MappedEvents(m, idx, mapped, prof) ==
  <<[event |-> Ev(m, "row_mapped"), index |-> idx, cardNo |-> mapped.CardNo,
     staffNo |-> mapped.StaffNo, name |-> mapped.Name]>>
  \o (IF idx \in DOMAIN overrideMap
      THEN <<[event |-> Ev(m, "override_applied"), index |-> idx, cardNo |-> prof.CardNo,
              downloadCard |-> prof.DownloadCard]>>
      ELSE <<>>)

MappedLines(idx) ==
  IF idx \in DOMAIN overrideMap THEN <<[line |-> "override_applied", index |-> idx]>> ELSE <<>>

\* one loop iteration up to `continue` (CardNo missing) or up to the await of
\* postAddCard (the request is handed to fetch)
ProcessRow ==
  /\ pc = "loop"
  /\ i < Len(rows)
  /\ LET row == rows[i + 1]
         mapped == mapRowToProfile(row)
         counted == [result EXCEPT !.attempted = @ + 1]
         prof == ApplyOverride(mapped, overrideMap, i)
     IN IF CardNoMissing(prof)
        THEN /\ result' = SkipResult(counted, i, prof)
             /\ textLog' = textLog \o MappedLines(i)
                             \o <<[line |-> "card_no_missing", index |-> i]>>
             /\ jsonLog' = jsonLog \o MappedEvents(mode, i, mapped, prof)
                             \o <<[event |-> Ev(mode, "card_no_missing"), index |-> i,
                                   name |-> prof.Name]>>
             /\ hist' = Append(hist, HistEntry(i, prof, FALSE, Null, result, SkipResult(counted, i, prof)))
             /\ i' = i + 1
             /\ UNCHANGED <<pc, profile, hasPhoto, httpLog, snap>>
        ELSE LET att == tryAttachPhoto(files, prof)
                 envelope == buildAddCardEnvelope(att.profile)
             IN /\ result' = IF att.hasPhoto
                             THEN [counted EXCEPT !.withPhoto = @ + 1]
                             ELSE [counted EXCEPT !.withoutPhoto = @ + 1]
                /\ profile' = att.profile
                /\ hasPhoto' = att.hasPhoto
                /\ textLog' = textLog \o MappedLines(i)
                                \o <<[line |-> "post", index |-> i]>>
                /\ jsonLog' = jsonLog \o MappedEvents(mode, i, mapped, prof)
                     \o (IF mode = "job"
                         THEN <<[event |-> "photo_candidates", index |-> i,
                                 candidates |-> PhotoCandidates(prof)]>>
                         ELSE <<>>)
                     \o <<[event |-> Ev(mode, "photo_attach_result"), index |-> i,
                           hasPhoto |-> att.hasPhoto,
                           photoSize |-> IF Truthy(att.profile.Photo)
                                         THEN Len(att.profile.Photo) ELSE 0],
                          [event |-> Ev(mode, "soap_request"), index |-> i,
                           cardNo |-> att.profile.CardNo, name |-> att.profile.Name,
                           envelope |-> redactEnvelope(envelope)]>>
                /\ httpLog' = Append(httpLog, [path |-> mode, index |-> i,
                                               profile |-> att.profile,
                                               envelope |-> envelope])
                /\ snap' = result
                /\ pc' = "awaiting"
                /\ UNCHANGED <<i, hist>>
  /\ UNCHANGED <<inputs, mode, overrideMap, previewOut>>
  /\ UNCHANGED pool
  /\ UNCHANGED <<overrides, client>>

\* variant: a request that threw is retried, the loop index is not advanced
HandleResponse_RetryOnThrow(resp) ==
  /\ pc = "awaiting"
  /\ IF resp.threw
     THEN /\ result' = CatchResult(result, profile)
          /\ pc' = AfterCatch
          /\ textLog' = Append(textLog, [line |-> "request_failed", index |-> i])
          /\ jsonLog' = Append(jsonLog, [event |-> Ev(mode, "error"), index |-> i,
                                         cardNo |-> profile.CardNo])
     ELSE /\ result' = ResponseResult(result, profile, hasPhoto, resp)
          /\ pc' = "loop"
          /\ textLog' = textLog \o <<[line |-> "resp", index |-> i]>>
               \o (IF BizSuccess(resp) THEN <<>>
                   ELSE IF ErrorCodeFor(resp) = "HTTP_ERROR"
                   THEN <<[line |-> "http_error", index |-> i]>>
                   ELSE <<[line |-> "vault_error", index |-> i]>>)
          /\ jsonLog' = Append(jsonLog, [event |-> Ev(mode, "soap_response"), index |-> i,
                                         status |-> IF Http2xx(resp.httpStatus)
                                                    THEN "ok" ELSE "error",
                                         httpStatus |-> resp.httpStatus,
                                         errCode |-> resp.errCode])
  /\ hist' = Append(hist, HistEntry(i, profile, TRUE, resp, snap,
                                     IF resp.threw THEN CatchResult(result, profile)
                                     ELSE ResponseResult(result, profile, hasPhoto, resp)))
  /\ i' = IF resp.threw THEN i ELSE i + 1
  /\ UNCHANGED <<inputs, mode, overrideMap, profile, hasPhoto, httpLog, previewOut, snap>>
  /\ UNCHANGED pool
  /\ UNCHANGED <<overrides, client>>

\* the rest of the iteration: the awaited postAddCard settles with resp
HandleResponse(resp) ==
  /\ pc = "awaiting"
  /\ IF resp.threw
     THEN /\ result' = CatchResult(result, profile)
          /\ pc' = AfterCatch
          /\ textLog' = Append(textLog, [line |-> "request_failed", index |-> i])
          /\ jsonLog' = Append(jsonLog, [event |-> Ev(mode, "error"), index |-> i,
                                         cardNo |-> profile.CardNo])
     ELSE /\ result' = ResponseResult(result, profile, hasPhoto, resp)
          /\ pc' = "loop"
          /\ textLog' = textLog \o <<[line |-> "resp", index |-> i]>>
               \o (IF BizSuccess(resp) THEN <<>>
                   ELSE IF ErrorCodeFor(resp) = "HTTP_ERROR"
                   THEN <<[line |-> "http_error", index |-> i]>>
                   ELSE <<[line |-> "vault_error", index |-> i]>>)
          /\ jsonLog' = Append(jsonLog, [event |-> Ev(mode, "soap_response"), index |-> i,
                                         status |-> IF Http2xx(resp.httpStatus)
                                                    THEN "ok" ELSE "error",
                                         httpStatus |-> resp.httpStatus,
                                         errCode |-> resp.errCode])
  /\ hist' = Append(hist, HistEntry(i, profile, TRUE, resp, snap,
                                     IF resp.threw THEN CatchResult(result, profile)
                                     ELSE ResponseResult(result, profile, hasPhoto, resp)))
  /\ i' = i + 1
  /\ UNCHANGED <<inputs, mode, overrideMap, profile, hasPhoto, httpLog, previewOut, snap>>
  /\ UNCHANGED pool
  /\ UNCHANGED <<overrides, client>>

\* after the loop: the completion line and event, and the return
Complete ==
  /\ pc = "loop"
  /\ i = Len(rows)
  /\ textLog' = Append(textLog, [line |-> "complete"])
  /\ jsonLog' = Append(jsonLog,
       [event |-> Ev(mode, "complete"),
        summary |-> [attempted |-> result.attempted, registered |-> result.registered,
                     withPhoto |-> result.withPhoto, withoutPhoto |-> result.withoutPhoto,
                     errors |-> Len(result.errors)]])
  /\ pc' = "done"
  /\ UNCHANGED <<inputs, mode, i, overrideMap, profile, hasPhoto, result, httpLog,
                 previewOut, snap, hist>>
  /\ UNCHANGED pool
  /\ UNCHANGED <<overrides, client>>

\* --------------------------------------------------------------- PreviewEngine
\* variant: the detail carries the mapped profile as it was before the photo step
PreviewProfile_NoPhoto(row, att) == mapRowToProfile(row)

\* the profile a preview detail carries: the mapped profile after tryAttachPhoto
PreviewProfile(row, att) == att.profile

\* the loop of previewJobToVault / previewCsvPathToVault over rows 1..n
RECURSIVE PreviewLoop(_, _, _)
PreviewLoop(rws, dir, n) ==
  IF n = 0 THEN NewResult
  ELSE LET res == PreviewLoop(rws, dir, n - 1)
           row == rws[n]
           att == tryAttachPhoto(dir, mapRowToProfile(row))
           counted == [res EXCEPT !.attempted = @ + 1,
                                  !.withPhoto = IF att.hasPhoto THEN @ + 1 ELSE @,
                                  !.withoutPhoto = IF att.hasPhoto THEN @ ELSE @ + 1]
       IN PushDetail(counted,
            [cardNo |-> att.profile.CardNo,
             name |-> att.profile.Name,
             department |-> att.profile.Department,
             staffNo |-> Or(s(OrHeaders(row, StaffNoHeaders)), att.profile.CardNo),
             hasPhoto |-> att.hasPhoto,
             sourceRow |-> row,
             profile |-> PreviewProfile(row, att)])

PreviewResult(m) ==
  IF ~dirExists THEN PushError(NewResult, [code |-> "OUTPUT_NOT_FOUND"])
  ELSE IF m = "csv" /\ ~csvExists THEN PushError(NewResult, [code |-> "CSV_NOT_FOUND"])
  ELSE IF rows = <<>> THEN PushError(NewResult, [code |-> "NO_ROWS"])
  ELSE PreviewLoop(rows, files, Len(rows))

\* variant: the preview appends an event to the structured log
previewJobToVault_Logging ==
  /\ pc # "loop"
  /\ UNCHANGED pool
  /\ UNCHANGED <<overrides, client>>
  /\ previewOut' = [ran |-> TRUE, result |-> PreviewResult("job")]
  /\ jsonLog' = Append(jsonLog, [event |-> "preview"])
  /\ UNCHANGED <<inputs, mode, pc, i, overrideMap, profile, hasPhoto, result,
                 textLog, httpLog, snap, hist>>

\* previewJobToVault: synchronous, so it runs between two steps of a batch
previewJobToVault ==
  /\ pc # "loop"
  /\ UNCHANGED pool
  /\ UNCHANGED <<overrides, client>>
  /\ UNCHANGED <<inputs, mode, pc, i, overrideMap, profile, hasPhoto, result, jsonLog,
                 textLog, httpLog, snap, hist>>
  /\ previewOut' = [ran |-> TRUE, result |-> PreviewResult("job")]

\* previewCsvPathToVault
previewCsvPathToVault ==
  /\ pc # "loop"
  /\ UNCHANGED pool
  /\ UNCHANGED <<overrides, client>>
  /\ UNCHANGED <<inputs, mode, pc, i, overrideMap, profile, hasPhoto, result, jsonLog,
                 textLog, httpLog, snap, hist>>
  /\ previewOut' = [ran |-> TRUE, result |-> PreviewResult("csv")]

\* ------------------------------------------------ /api/vault/update-card-db
\* clip(v, m) of the handler
clip(v, m) == IF v \in {Undef, Null} THEN <<>> ELSE Substring0(Trim(String(v)), m)

ClipName == 40
ClipStaffNo == 15

\* a row of the CardDB table: the columns the handler reads for these fields
DbColumns == {"CardNo", "cardno", "CARDNO", "Name", "NAME", "StaffNo", "StaffID"}
MkDbRow(cells) == [c \in DbColumns |-> IF c \in DOMAIN cells THEN cells[c] ELSE Undef]

\* the profile the handler builds from the row and the requested card number
CardDbProfile(row, cn) ==
  [ CardNo |-> Trim(String(Or(row["CardNo"], Or(row["cardno"], Or(row["CARDNO"], cn))))),
    Name |-> clip(Or(row["Name"], row["NAME"]), ClipName),
    StaffNo |-> clip(Or(row["StaffNo"], Or(row["StaffID"], <<>>)), ClipStaffNo),
    ActiveStatus |-> "true",
    NonExpired |-> "true",
    Photo |-> Null ]

\* updateProfileToVault: the profile is serialized and posted as it is
updateProfileToVault(prof) ==
  [path |-> "cardDb", index |-> 0, profile |-> prof,
   envelope |-> [action |-> "UpdateCard", CardNo |-> escapeXml(prof.CardNo),
                 Name |-> escapeXml(prof.Name), StaffNo |-> escapeXml(prof.StaffNo),
                 Photo |-> PhotoTag(prof)]]

DbCardNos == {CardC1, Long11, Long11 \o <<" ">>}
DbRows ==
  {MkDbRow("CardNo" :> c @@ "Name" :> NameA) : c \in DbCardNos}
  \cup {MkDbRow("cardno" :> c @@ "StaffID" :> StaffS1) : c \in DbCardNos}
  \cup {MkDbRow("NAME" :> NameA)}
RequestedCardNos == {<<>>, <<" ">>, CardC1, <<" ">> \o CardC1, Long11}

\* the handler: 400 without a card number, 404 when no row is found, else the
\* profile of the found row is sent to the Vault endpoint
UpdateCardDb(cardNo, found, row) ==
  /\ pc = "idle"
  /\ mode' = "cardDb"
  /\ pc' = "done"
  /\ LET cn == Trim(String(Or(cardNo, <<>>)))
     IN IF cn = <<>> \/ ~found
        THEN UNCHANGED httpLog
        ELSE httpLog' = Append(httpLog, updateProfileToVault(CardDbProfile(row, cn)))
  /\ UNCHANGED <<inputs, i, overrideMap, profile, hasPhoto, result, jsonLog, textLog,
                 previewOut, snap, hist>>
  /\ UNCHANGED pool
  /\ UNCHANGED <<overrides, client>>

\* ------------------------------------------- /api/vault/update-csv (batch)
\* updateCsvPathToVault({ csvPath, endpointBaseUrl, overrides, indices,
\* concurrency }): rows are handed to a bounded pool of workers; each worker
\* maps, overrides and resolves the photo of its row, posts the request and
\* takes the next row when the request has settled.
DefaultConcurrency == 6

\* variant: the worker count is not enforced
EffectiveConcurrency_Unbounded(c) == Len(rows) + 1

\* the worker count of a run: the one the caller gave, else the default
EffectiveConcurrency(c) == IF c > 0 THEN c ELSE DefaultConcurrency

InFlight == DOMAIN inflight

\* the function f with index k bound to v / without index k
Put(f, k, v) == [j \in (DOMAIN f) \cup {k} |-> IF j = k THEN v ELSE f[j]]
Drop(f, k) == [j \in (DOMAIN f) \ {k} |-> f[j]]

\* the request of one row of the update batch
UpdateRequest(idx, prof) ==
  [path |-> "update", index |-> idx, profile |-> prof,
   envelope |-> updateProfileToVault(prof).envelope]

UpdateBegin(ovs, conc) ==
  /\ pc = "idle"
  /\ overrides' = ovs
  /\ UNCHANGED client
  /\ mode' = "update"
  /\ i' = 0
  /\ concurrency' = conc
  /\ inflight' = <<>>
  /\ UNCHANGED <<inputs, jsonLog, httpLog, previewOut, profile, hasPhoto, snap, hist>>
  /\ IF ~dirExists \/ ~csvExists
     THEN /\ result' = PushError(NewResult, [code |-> IF ~dirExists THEN "OUTPUT_NOT_FOUND"
                                                       ELSE "CSV_NOT_FOUND"])
          /\ pc' = "done"
          /\ UNCHANGED <<updateLog, textLog, overrideMap>>
     ELSE IF rows = <<>>
     THEN /\ result' = PushError(NewResult, [code |-> "NO_ROWS"])
          /\ pc' = "done"
          /\ textLog' = textLog \o <<[line |-> "start_update"], [line |-> "no_rows_update"]>>
          /\ updateLog' = updateLog \o <<[event |-> "start_update"],
                                          [event |-> "update_batch_complete"]>>
          /\ UNCHANGED overrideMap
     ELSE /\ result' = NewResult
          /\ overrideMap' = BuildOverrideMap(ovs)
          /\ pc' = "pool"
          /\ textLog' = Append(textLog, [line |-> "start_update"])
          /\ updateLog' = Append(updateLog, [event |-> "start_update"])

\* a free worker takes the next row: mapping, override, CardNo check, photo,
\* and the request is handed to fetch
UpdateTakeRow ==
  /\ pc = "pool"
  /\ UNCHANGED <<overrides, client>>
  /\ i < Len(rows)
  /\ Cardinality(InFlight) < EffectiveConcurrency(concurrency)
  /\ LET mapped == mapRowToProfile(rows[i + 1])
         prof == ApplyOverride(mapped, overrideMap, i)
         counted == [result EXCEPT !.attempted = @ + 1]
         att == tryAttachPhoto(files, prof)
         mappedEv == [event |-> "row_mapped_update", index |-> i, cardNo |-> prof.CardNo,
                      name |-> prof.Name]
     IN IF CardNoMissing(prof)
        THEN /\ result' = SkipResult(counted, i, prof)
             /\ updateLog' = updateLog \o
                  <<mappedEv, [event |-> "row_skipped_missing_cardno", index |-> i]>>
             /\ textLog' = Append(textLog, [line |-> "row_skipped_missing_cardno", index |-> i])
             /\ UNCHANGED <<inflight, httpLog>>
        ELSE /\ result' = IF att.hasPhoto
                          THEN [counted EXCEPT !.withPhoto = @ + 1]
                          ELSE [counted EXCEPT !.withoutPhoto = @ + 1]
             /\ updateLog' = updateLog \o
                  <<mappedEv,
                    [event |-> "soap_request_update", index |-> i,
                     cardNo |-> att.profile.CardNo, name |-> att.profile.Name,
                     envelope |-> redactEnvelope(UpdateRequest(i, att.profile).envelope)]>>
             /\ textLog' = Append(textLog, [line |-> "post_update", index |-> i])
             /\ inflight' = Put(inflight, i, [profile |-> att.profile, hasPhoto |-> att.hasPhoto])
             /\ httpLog' = Append(httpLog, UpdateRequest(i, att.profile))
  /\ i' = i + 1
  /\ UNCHANGED <<inputs, mode, pc, overrideMap, profile, hasPhoto, jsonLog, previewOut,
                 snap, hist, concurrency>>

\* the request of row idx settles with resp and its worker is free again
UpdateSettle(idx, resp) ==
  /\ pc = "pool"
  /\ UNCHANGED <<overrides, client>>
  /\ idx \in InFlight
  /\ inflight' = Drop(inflight, idx)
  /\ IF resp.threw
     THEN /\ result' = CatchResult(result, inflight[idx].profile)
          /\ updateLog' = Append(updateLog, [event |-> "error_update", index |-> idx,
                                             cardNo |-> inflight[idx].profile.CardNo])
          /\ textLog' = Append(textLog, [line |-> "error_update", index |-> idx])
     ELSE /\ result' = ResponseResult(result, inflight[idx].profile, inflight[idx].hasPhoto, resp)
          /\ updateLog' = updateLog \o
               <<[event |-> "soap_response_update", index |-> idx, errCode |-> resp.errCode],
                 [event |-> "row_update_complete", index |-> idx, success |-> BizSuccess(resp),
                  cardNo |-> inflight[idx].profile.CardNo]>>
          /\ textLog' = Append(textLog, [line |-> "row_update_complete", index |-> idx])
  /\ UNCHANGED <<inputs, mode, pc, i, overrideMap, profile, hasPhoto, jsonLog, httpLog,
                 previewOut, snap, hist, concurrency>>

\* every row was taken and every request has settled
UpdateComplete ==
  /\ pc = "pool"
  /\ UNCHANGED <<overrides, client>>
  /\ i = Len(rows)
  /\ InFlight = {}
  /\ updateLog' = Append(updateLog, [event |-> "update_batch_complete"])
  /\ textLog' = Append(textLog, [line |-> "update_batch_complete"])
  /\ pc' = "done"
  /\ UNCHANGED <<inputs, mode, i, overrideMap, profile, hasPhoto, result, jsonLog, httpLog,
                 previewOut, snap, hist, inflight, concurrency>>

\* a batch of one row more than the default worker count
LongBatch == [k \in 1..(DefaultConcurrency + 1) |-> RowWithCard]

\* the requests of the model: the long batch is run without overrides, with
\* no worker count or with 2; a short batch with and without an override, with
\* no worker count or with 1
PoolOverrideLists == {<<>>, <<MkOverride(TRUE, 1, <<" ">>, "false")>>}
PoolRequestsFor(rws) ==
  IF Len(rws) > MaxRows
  THEN {[overrides |-> <<>>, concurrency |-> c] : c \in {0, 2}}
  ELSE {[overrides |-> ovs, concurrency |-> c] : ovs \in PoolOverrideLists, c \in {0, 1}}

\* the outcome of a row does not bear on the pool: the long batch gets one
\* response, a short one a response of each class
PoolResponsesFor(rws) == IF Len(rws) > MaxRows THEN {Resp(200, <<"0">>)} ELSE ClassResponses

PoolRowSeqs == UNION {[1..n -> {RowWithCard, RowNoCard}] : n \in 0..MaxRows}

PoolInit ==
  /\ dirExists = TRUE
  /\ csvExists \in BOOLEAN
  /\ rows \in PoolRowSeqs \cup {LongBatch}
  /\ files \in FileSets
  /\ (~csvExists => (rows = <<>> /\ files = NoFiles))
  /\ (rows = LongBatch => files = NoFiles)
  /\ InitEngine

\* the update batch, and the registration loop over the short batches
PoolNext ==
  \/ \E rq \in PoolRequestsFor(rows) : UpdateBegin(rq.overrides, rq.concurrency)
  \/ UpdateTakeRow
  \/ \E idx \in InFlight, resp \in PoolResponsesFor(rows) : UpdateSettle(idx, resp)
  \/ UpdateComplete
  \/ (rows # LongBatch /\ \E m \in {"job", "csv"} : Begin(m, <<>>))
  \/ ProcessRow
  \/ \E resp \in ClassResponses : HandleResponse(resp)
  \/ Complete

PoolSpec == PoolInit /\ [][PoolNext]_vars

\* --------------------------------------------- /api/vault/update-progress-csv
\* obj.f of a parsed log line: undefined when the line has no such field
Field(obj, f) == IF f \in DOMAIN obj THEN obj[f] ELSE Undef

\* rows[idx] = {} : a row entry no event has filled yet
EmptyStatus == [state |-> "none", code |-> Undef, cardNo |-> Undef]

\* rows[idx] after one line whose index is a number
FoldRow(prev, obj) ==
  LET ev == obj.event
  IN IF ev = "row_skipped_missing_cardno" THEN [EmptyStatus EXCEPT !.state = "skipped"]
     ELSE IF ev \in {"soap_request_update", "row_mapped_update"}
     THEN [prev EXCEPT !.state = "executing", !.cardNo = Field(obj, "cardNo")]
     ELSE IF ev = "row_update_complete"
     THEN [prev EXCEPT !.state = IF Field(obj, "success") = TRUE THEN "success" ELSE "failed",
                       !.cardNo = Field(obj, "cardNo")]
     ELSE IF ev = "error_update"
     THEN [prev EXCEPT !.state = "failed", !.cardNo = Field(obj, "cardNo")]
     ELSE IF ev = "soap_response_update"
     THEN [prev EXCEPT !.code = Field(obj, "errCode")]
     ELSE prev

\* the body of the loop for one parsed line
FoldStep(acc, obj) ==
  IF obj.event = "update_batch_complete" THEN [acc EXCEPT !.completed = TRUE]
  ELSE IF "index" \notin DOMAIN obj THEN acc
  ELSE LET idx == obj.index
           prev == IF idx \in DOMAIN acc.rows THEN acc.rows[idx] ELSE EmptyStatus
       IN [acc EXCEPT !.rows = [k \in (DOMAIN acc.rows) \cup {idx} |->
                                 IF k = idx THEN FoldRow(prev, obj) ELSE acc.rows[k]]]

\* the loop over the lines of the log file, each line a well-formed event
RECURSIVE FoldProgress(_)
FoldProgress(log) ==
  IF log = <<>> THEN [rows |-> <<>>, completed |-> FALSE]
  ELSE FoldStep(FoldProgress(SubSeq(log, 1, Len(log) - 1)), log[Len(log)])

\* the response of the progress query: the fold of vault-update-log.jsonl of
\* the directory of the source (no rows and not completed when it is absent)
UpdateProgressCsv == FoldProgress(updateLog)

\* ------------------------------------- the progress query on the text it reads
\* The file is a sequence of lines (raw.split(/\r?\n/)); a line is a string.
\* JSON.stringify(obj) is <<"{", body, "}">> with body the literal that spells
\* the fields of obj.
Stringify(obj) == <<"{", ToString(obj), "}">>

\* the events the lines of the model spell
FoldEvents ==
  { [event |-> "row_mapped_update", index |-> 0, cardNo |-> CardC1],
    [event |-> "soap_response_update", index |-> 0, errCode |-> <<"0">>],
    [event |-> "row_update_complete", index |-> 0, success |-> TRUE, cardNo |-> CardC1],
    [event |-> "error_update", index |-> 1, cardNo |-> CardC2],
    [event |-> "row_skipped_missing_cardno", index |-> 1],
    [event |-> "update_batch_complete"] }

\* JSON.parse(s): the object a line spells, null, or a SyntaxError
JsonParse(str) ==
  IF str = <<"null">> THEN [kind |-> "null"]
  ELSE IF /\ Len(str) = 3 /\ str[1] = "{" /\ str[3] = "}"
          /\ \E o \in FoldEvents : ToString(o) = str[2]
  THEN [kind |-> "object", obj |-> CHOOSE o \in FoldEvents : ToString(o) = str[2]]
  ELSE [kind |-> "error"]

\* variant: a line that does not parse makes the query fail
OnParseError_Fail(acc) == [acc EXCEPT !.ok = FALSE]

\* `try { obj = JSON.parse(s); } catch { continue; }`
OnParseError(acc) == acc

\* the loop of the query over the lines; ok is FALSE when the handler threw
\* and answered 500 (obj.event of null)
RECURSIVE FoldLines(_)
FoldLines(lines) ==
  IF lines = <<>> THEN [ok |-> TRUE, rows |-> <<>>, completed |-> FALSE]
  ELSE LET acc == FoldLines(SubSeq(lines, 1, Len(lines) - 1))
           str == Trim(lines[Len(lines)])
           parsed == JsonParse(str)
       IN IF ~acc.ok THEN acc
          ELSE IF str = <<>> THEN acc
          ELSE IF parsed.kind = "error" THEN OnParseError(acc)
          ELSE IF parsed.kind = "null" THEN [acc EXCEPT !.ok = FALSE]
          ELSE FoldStep(acc, parsed.obj)

\* the number of lines of a log file of the model
MaxLines == 3

\* lines: events as they are written, one with blanks around it, an empty and
\* a blank line, a line cut by a write in flight, a line that is no JSON, and
\* the JSON text null
CutLine == SubSeq(Stringify([event |-> "row_mapped_update", index |-> 0, cardNo |-> CardC1]), 1, 2)
PaddedLine == <<" ">> \o Stringify([event |-> "update_batch_complete"]) \o <<" ">>
JunkLines == {<<>>, <<" ">>, CutLine, <<"{">>, <<"x">>}
LineAlphabet ==
  {Stringify(e) : e \in FoldEvents} \cup {PaddedLine} \cup JunkLines \cup {<<"null">>}

FoldInit ==
  /\ dirExists = TRUE
  /\ csvExists = TRUE
  /\ rows = <<>>
  /\ files = NoFiles
  /\ mode = "none" /\ pc = "idle" /\ i = 0 /\ overrideMap = <<>>
  /\ profile = NoProfile /\ hasPhoto = FALSE /\ result = NewResult
  /\ jsonLog = <<>> /\ textLog = <<>> /\ httpLog = <<>> /\ previewOut = NoPreview
  /\ snap = NewResult /\ hist = <<>>
  /\ updateLog = <<>> /\ inflight = <<>> /\ concurrency = 0 /\ overrides = <<>>
  /\ progress = NoProgress /\ ui = UiIdle /\ response = NoResponse
  /\ logText \in UNION {[1..n -> LineAlphabet] : n \in 0..MaxLines}

\* /api/vault/update-progress-csv answers from the text of the log file
QueryProgressText ==
  /\ ~progress.asked
  /\ progress' = [asked |-> TRUE] @@ FoldLines(logText)
  /\ UNCHANGED <<inputs, mode, pc, i, overrideMap, profile, hasPhoto, result, jsonLog,
                 textLog, httpLog, previewOut, snap, hist, overrides, ui, logText, response>>
  /\ UNCHANGED pool

FoldSpec == FoldInit /\ [][QueryProgressText]_vars

\* ------------------------------------------- repeated update runs of a source
\* the number of update runs one source is given
MaxRuns == 2

\* the runs that wrote their start event to the log of the source
RunsStarted == Len(SelectSeq(updateLog, LAMBDA e : e.event = "start_update"))

\* /api/vault/update-csv answers: the call has returned and the next request
\* for the same source can be served; the log of the source stays as it is
UpdateReturn ==
  /\ pc = "done"
  /\ mode = "update"
  /\ RunsStarted < MaxRuns
  /\ pc' = "idle"
  /\ mode' = "none"
  /\ UNCHANGED <<inputs, i, overrideMap, profile, hasPhoto, result, jsonLog, textLog,
                 httpLog, previewOut, snap, hist>>
  /\ UNCHANGED pool
  /\ UNCHANGED <<overrides, client>>

RerunResponses == {Resp(200, <<"0">>), Threw}

RerunInit ==
  /\ dirExists = TRUE
  /\ csvExists = TRUE
  /\ rows \in PoolRowSeqs
  /\ files = NoFiles
  /\ InitEngine

RerunNext ==
  \/ \E c \in {0, 1} : UpdateBegin(<<>>, c)
  \/ UpdateTakeRow
  \/ \E idx \in InFlight, resp \in RerunResponses : UpdateSettle(idx, resp)
  \/ UpdateComplete
  \/ UpdateReturn

RerunSpec == RerunInit /\ [][RerunNext]_vars

\* ------------------------------------------ the update page: handleExecuteUpdate
\* the number of progress requests one page sends in the model
MaxPolls == 3

engine == <<inputs, mode, pc, i, overrideMap, profile, hasPhoto, result, jsonLog, textLog,
            httpLog, previewOut, snap, hist, overrides>>

\* handleExecuteUpdate up to the await of the batch request: stopPolling is
\* false, the interval is set and the request to /api/vault/update-csv is sent
UiExecuteUpdate ==
  /\ ui.pc = "idle"
  /\ ui' = [pc |-> "awaiting", stopPolling |-> FALSE, interval |-> TRUE, polls |-> 0]
  /\ UNCHANGED <<engine, pool, progress, logText, response>>

\* one tick of the interval that finds stopPolling false: poll() sends a
\* progress request; when it is answered OK and completed, stopPolling is set
UiPoll(answered) ==
  /\ ui.interval
  /\ ~ui.stopPolling
  /\ ui.polls < MaxPolls
  /\ ui' = [ui EXCEPT !.polls = @ + 1,
                      !.stopPolling = answered /\ UpdateProgressCsv.completed]
  /\ progress' = IF answered
                 THEN [asked |-> TRUE, ok |-> TRUE, rows |-> UpdateProgressCsv.rows,
                       completed |-> UpdateProgressCsv.completed]
                 ELSE progress
  /\ UNCHANGED <<engine, pool, logText, response>>

\* the awaited batch request ends: answered OK (the run has returned), answered
\* with a non-OK status, or fetch threw.  Only the OK path reaches
\* `stopPolling = true; window.clearInterval(pollId)`; the other two leave the
\* try block by the throw, and catch and finally touch neither.
UiBatchEnds(outcome) ==
  /\ ui.pc = "awaiting"
  /\ outcome = "ok" => (mode = "update" /\ pc = "done")
  /\ ui' = IF outcome = "ok"
           THEN [ui EXCEPT !.pc = "finished", !.stopPolling = TRUE, !.interval = FALSE]
           ELSE [ui EXCEPT !.pc = "finished"]
  /\ UNCHANGED <<engine, pool, progress, logText, response>>

UiInit ==
  /\ dirExists = TRUE
  /\ csvExists = TRUE
  /\ rows \in PoolRowSeqs
  /\ files = NoFiles
  /\ InitEngine

\* the page, and the update run its batch request starts
UiNext ==
  \/ UiExecuteUpdate
  \/ \E answered \in BOOLEAN : UiPoll(answered)
  \/ \E outcome \in {"ok", "notok", "threw"} : UiBatchEnds(outcome)
  \/ (ui.pc = "awaiting" /\ UpdateBegin(<<>>, DefaultConcurrency))
  \/ UpdateTakeRow
  \/ \E idx \in InFlight, resp \in RerunResponses : UpdateSettle(idx, resp)
  \/ UpdateComplete

UiSpec == UiInit /\ [][UiNext]_vars

\* ------------------------------------------- the answers of the batch endpoints
\* { ...base, ...obj }: a key of obj replaces the same key of base
Spread(base, obj) == obj @@ base

\* variant: a batch with row-level errors is answered as failed
RegisterResponse_FailOnErrors(res) ==
  [sent |-> TRUE, status |-> 200, body |-> Spread([success |-> res.errors = <<>>], res)]

\* res.json({ success: true, ...result }) of /api/vault/register and
\* /api/vault/register-csv
RegisterResponse(res) ==
  [sent |-> TRUE, status |-> 200, body |-> Spread([success |-> TRUE], res)]

\* res.json({ success, errorCount, ...result }) of /api/vault/update-csv
UpdateResponse(res) ==
  [sent |-> TRUE, status |-> 200,
   body |-> Spread([success |-> res.attempted > 0, errorCount |-> Len(res.errors)], res)]

\* the engine has returned and the handler answers
RegisterRespond ==
  /\ mode \in {"job", "csv"}
  /\ pc = "done"
  /\ ~response.sent
  /\ response' = RegisterResponse(result)
  /\ UNCHANGED <<engine, pool, progress, ui, logText>>

UpdateRespond ==
  /\ mode = "update"
  /\ pc = "done"
  /\ ~response.sent
  /\ response' = UpdateResponse(result)
  /\ UNCHANGED <<engine, pool, progress, ui, logText>>

EndpointInit ==
  /\ dirExists = TRUE
  /\ csvExists \in BOOLEAN
  /\ rows \in PoolRowSeqs
  /\ files \in FileSets
  /\ (~csvExists => (rows = <<>> /\ files = NoFiles))
  /\ InitEngine

\* the three batch endpoints: the run of the engine and the answer
EndpointNext ==
  \/ \E m \in {"job", "csv"} : Begin(m, <<>>)
  \/ ProcessRow
  \/ \E resp \in ClassResponses : HandleResponse(resp)
  \/ Complete
  \/ RegisterRespond
  \/ UpdateBegin(<<>>, 0)
  \/ UpdateTakeRow
  \/ \E idx \in InFlight, resp \in ClassResponses : UpdateSettle(idx, resp)
  \/ UpdateComplete
  \/ UpdateRespond

EndpointSpec == EndpointInit /\ [][EndpointNext]_vars

\* -------------------------------------------------------------------- Next
Next ==
  \/ \E m \in {"job", "csv"}, ovs \in OverrideLists : Begin(m, ovs)
  \/ ProcessRow
  \/ \E resp \in ResponsesFor(i) : HandleResponse(resp)
  \/ Complete
  \/ previewJobToVault
  \/ previewCsvPathToVault
  \/ \E cardNo \in RequestedCardNos, found \in BOOLEAN, row \in DbRows :
       UpdateCardDb(cardNo, found, row)

Spec == Init /\ [][Next]_vars

\* A batch run alone, scheduled to its end: the loop is one async function, so
\* each of its steps is taken once it can be, and every request settles.
BatchNext ==
  \/ \E m \in {"job", "csv"}, ovs \in OverrideLists : Begin(m, ovs)
  \/ ProcessRow
  \/ \E resp \in ClassResponses : HandleResponse(resp)
  \/ Complete

\* ENABLED <<ProcessRow>>_vars, written out: the iteration has no other guard
\* and every iteration changes i or pc
ProcessRowEnabled == pc = "loop" /\ i < Len(rows)

\* WF_vars(ProcessRow), by the definition of WF and with the enabling condition
\* written out
FairProcessRow == []<>(~ProcessRowEnabled) \/ []<><<ProcessRow>>_vars

LiveSpec ==
  /\ Init
  /\ [][BatchNext]_vars
  /\ FairProcessRow
  /\ WF_vars(Complete)
  /\ WF_vars(\E resp \in ClassResponses : HandleResponse(resp))

\* ------------------------------------------- the mapper as a pure function
\* rows that vary the access-level, MessHall, face and lift columns
AccessCells == {Undef, <<>>, <<" ">>, <<"0", "0">>, <<" ", "5">>}
LastAccessCells == {Undef, Num0, <<"3">>}
MessHallCells ==
  {Undef, <<"L", "a", "b", "o", "t", "a", " ">>, <<"M", "a", "k", "a", "r", "t", "i">>,
   <<"N", "o", " ", "A", "c", "c", "e", "s", "s", "!", "!">>, <<"x">>}
FaceCells == {Undef, <<" ">>, <<"0", "0">>, <<"7">>}
LiftCells == {Undef, <<>>, <<"0", "0">>, <<" ", "9", " ">>}

AccessRows ==
  { ("Access Level [Max 3]" :> a1 @@ "Access Level" :> a2 @@ "AccessLevel" :> a3
     @@ "MessHall" :> m1 @@ "Mess Hall" :> m2
     @@ "Face Access Level [Max 3]" :> f1 @@ "FaceAccessLevel" :> f3
     @@ "Lift Access Level" :> l2 @@ "Card No" :> CardC1) :
      a1 \in AccessCells, a2 \in AccessCells, a3 \in LastAccessCells,
      m1 \in MessHallCells, m2 \in {Undef, Makarti},
      f1 \in FaceCells, f3 \in {Undef, Num0}, l2 \in LiftCells }

\* rows that vary a high-priority and a low-priority spelling of the card
\* number, name, staff number and department columns
BlankCells == {Undef, <<>>, <<" ">>}
NameB == <<"B">>
DeptD == <<"D">>
DeptE == <<"E">>
HeaderRows ==
  { ("Card No #[Max 10]" :> c1 @@ "CardNo" :> c4
     @@ "Card Name [Max 50]" :> n1 @@ "Nama" :> n6
     @@ "Staff No [Max 15]" :> s1 @@ "ID" :> s5
     @@ "Department [Max 50]" :> d1 @@ "Dept" :> d4) :
      c1 \in BlankCells \cup {CardC1}, c4 \in {Undef, CardC2},
      n1 \in BlankCells \cup {NameA}, n6 \in {Undef, NameB},
      s1 \in BlankCells \cup {StaffS1}, s5 \in {<<>>, CardC2},
      d1 \in BlankCells \cup {DeptD}, d4 \in {<<" ">>, DeptE} }

MapRows == AccessRows \cup HeaderRows

MapInit ==
  /\ dirExists = TRUE
  /\ csvExists = TRUE
  /\ rows \in {<<r>> : r \in MapRows}
  /\ files = NoFiles
  /\ InitEngine

\* mapRowToProfile applied to the row
MapRow ==
  /\ pc = "idle"
  /\ profile' = mapRowToProfile(rows[1])
  /\ pc' = "mapped"
  /\ UNCHANGED <<inputs, mode, i, overrideMap, hasPhoto, result, jsonLog, textLog,
                 httpLog, previewOut, snap, hist>>
  /\ UNCHANGED pool
  /\ UNCHANGED <<overrides, client>>

MapSpec == MapInit /\ [][MapRow]_vars

\* --------------------------------------- the override step as a pure function
\* override arrays of a request: cardNo alone, downloadCard alone, both, an
\* entry whose index is not a number, and two entries for the same index
OvLists ==
  { <<>>,
    <<MkOverride(TRUE, 0, CardC2, "absent")>>,
    <<MkOverride(TRUE, 0, <<" ">>, "absent")>>,
    <<MkOverride(TRUE, 0, Undef, "false")>>,
    <<MkOverride(TRUE, 0, Undef, "true")>>,
    <<MkOverride(TRUE, 0, Undef, "absent")>>,
    <<MkOverride(TRUE, 1, <<" ">> \o Long11, "false")>>,
    <<MkOverride(FALSE, 0, CardC2, "false")>>,
    <<MkOverride(TRUE, 0, CardC2, "false"), MkOverride(TRUE, 0, Undef, "absent")>>,
    <<MkOverride(TRUE, 0, CardC2, "absent"), MkOverride(TRUE, 0, Undef, "false")>>,
    <<MkOverride(TRUE, 0, Undef, "false"), MkOverride(FALSE, 0, CardC2, "true")>>,
    <<MkOverride(TRUE, 0, CardC1, "absent"), MkOverride(TRUE, 1, CardC2, "true")>> }

OvRows == {<<r1, r2>> : r1 \in BatchRows, r2 \in BatchRows}

OvInit ==
  /\ dirExists = TRUE
  /\ csvExists = TRUE
  /\ rows \in OvRows
  /\ files = NoFiles
  /\ InitEngine

\* the loop body up to the override step: the map is built and row idx mapped
OvMapRow(ovs, idx) ==
  /\ pc = "idle"
  /\ overrideMap' = BuildOverrideMap(ovs)
  /\ i' = idx
  /\ profile' = mapRowToProfile(rows[idx + 1])
  /\ snap' = mapRowToProfile(rows[idx + 1])
  /\ pc' = "mapped"
  /\ UNCHANGED <<inputs, mode, hasPhoto, result, jsonLog, textLog, httpLog, previewOut, hist>>
  /\ UNCHANGED pool
  /\ overrides' = ovs
  /\ UNCHANGED client

\* the override step applied to the profile (hist keeps the profile after each
\* application)
OvApply ==
  /\ pc \in {"mapped", "applied"}
  /\ profile' = ApplyOverride(profile, overrideMap, i)
  /\ hist' = Append(hist, ApplyOverride(profile, overrideMap, i))
  /\ pc' = IF pc = "mapped" THEN "applied" ELSE "applied2"
  /\ UNCHANGED <<inputs, mode, i, overrideMap, hasPhoto, result, jsonLog, textLog,
                 httpLog, previewOut, snap>>
  /\ UNCHANGED pool
  /\ UNCHANGED <<overrides, client>>

OvNext ==
  \/ \E ovs \in OvLists, idx \in 0..1 : OvMapRow(ovs, idx)
  \/ OvApply

OverrideSpec == OvInit /\ [][OvNext]_vars

\* ------------------------------------------ the photo step as a pure function
\* lookup directories: any set of the six files named after C1 and S1, each
\* holding its own bytes, and the same with an empty C1.jpg
PhotoNames == Range(NamesFor(CardC1)) \cup Range(NamesFor(StaffS1))
BytesOf(f) == <<"bytes">> \o f
EmptyFile == CardC1 \o <<JPG>>
PhotoDirs ==
  {[f \in S |-> BytesOf(f)] : S \in SUBSET PhotoNames}
  \cup {[f \in S |-> IF f = EmptyFile THEN <<>> ELSE BytesOf(f)] :
          S \in {X \in SUBSET PhotoNames : EmptyFile \in X}}

PhotoRows ==
  { ("Card No" :> c @@ "Staff No [Max 15]" :> st @@ "Name" :> NameA) :
      c \in {<<>>, CardC1}, st \in {<<>>, StaffS1} }

PhotoInit ==
  /\ dirExists = TRUE
  /\ csvExists = TRUE
  /\ rows \in {<<r>> : r \in PhotoRows}
  /\ files \in PhotoDirs
  /\ InitEngine

\* tryAttachPhoto applied to the mapped profile of the row (snap keeps the
\* profile before the call)
AttachPhoto ==
  /\ pc = "idle"
  /\ snap' = mapRowToProfile(rows[1])
  /\ profile' = tryAttachPhoto(files, mapRowToProfile(rows[1])).profile
  /\ hasPhoto' = tryAttachPhoto(files, mapRowToProfile(rows[1])).hasPhoto
  /\ pc' = "attached"
  /\ UNCHANGED <<inputs, mode, i, overrideMap, result, jsonLog, textLog, httpLog,
                 previewOut, hist>>
  /\ UNCHANGED pool
  /\ UNCHANGED <<overrides, client>>

\* photoExists called with the CardNo and StaffNo of the same row in the same
\* directory (hist keeps what it returned and read)
CheckPhotoExists ==
  /\ pc = "attached"
  /\ hist' = <<[found |-> photoExists(files, snap.CardNo, snap.StaffNo),
                reads |-> photoExistsReads(files, snap.CardNo, snap.StaffNo),
                attachReads |-> tryAttachPhotoReads(files, snap)]>>
  /\ pc' = "checked"
  /\ UNCHANGED <<inputs, mode, i, overrideMap, profile, hasPhoto, result, jsonLog, textLog,
                 httpLog, previewOut, snap>>
  /\ UNCHANGED pool
  /\ UNCHANGED <<overrides, client>>

PhotoNext == AttachPhoto \/ CheckPhotoExists

PhotoSpec == PhotoInit /\ [][PhotoNext]_vars

\* ------------------------------------------------- the envelope as a text
\* The characters of the Photo tags, which the pattern of redactEnvelope looks
\* for; the other tags of the template are fixed literals.
PhotoOpen == <<"<", "P", "h", "o", "t", "o", ">">>
PhotoClose == <<"<", "/", "P", "h", "o", "t", "o", ">">>
PhotoEmpty == <<"<", "P", "h", "o", "t", "o", " ", "/", ">">>
RedactedMark == <<"[redacted]">>

\* `<Tag>${text}</Tag>` of the template
Elem(tag, text) == <<"<" \o tag \o ">">> \o text \o <<"</" \o tag \o ">">>

\* the template up to the Photo element
EnvelopeHead(env) ==
  <<"<soap:Envelope><soap:Body><AddCard><CardProfile>">>
  \o Elem("CardNo", env.CardNo) \o Elem("Name", env.Name)
  \o Elem("Department", env.Department) \o Elem("Company", env.Company)
  \o Elem("AccessLevel", env.AccessLevel) \o Elem("FaceAccessLevel", env.FaceAccessLevel)
  \o Elem("LiftAccessLevel", env.LiftAccessLevel)
  \o Elem("ActiveStatus", <<env.ActiveStatus>>) \o Elem("NonExpired", <<env.NonExpired>>)
  \o Elem("ExpiredDate", env.ExpiredDate) \o Elem("StaffNo", env.StaffNo)
  \o Elem("Email", env.Email) \o Elem("MobileNo", env.MobileNo)

\* photoTag
PhotoText(photo) == IF photo.empty THEN PhotoEmpty ELSE PhotoOpen \o photo.text \o PhotoClose

\* the template after the Photo element
EnvelopeTail(env) ==
  Elem("DownloadCard", <<env.DownloadCard>>)
  \o <<"</CardProfile></AddCard></soap:Body></soap:Envelope>">>

\* the string buildAddCardEnvelope returns
EnvelopeText(env) == EnvelopeHead(env) \o PhotoText(env.Photo) \o EnvelopeTail(env)

\* text.indexOf(pat, from) with positions from 1; 0 when there is none
Occurs(text, pat, p) == p + Len(pat) - 1 <= Len(text) /\ SubSeq(text, p, p + Len(pat) - 1) = pat
IndexOf(text, pat, from) ==
  IF \E p \in from..Len(text) : Occurs(text, pat, p)
  THEN CHOOSE p \in from..Len(text) :
         Occurs(text, pat, p) /\ \A r \in from..(p - 1) : ~Occurs(text, pat, r)
  ELSE 0

\* envelope.replace(/<Photo>.*?<\/Photo>/s, '<Photo>[redacted]</Photo>'): the
\* first <Photo> that is followed by a </Photo>, up to the nearest </Photo>
redactEnvelopeText(text) ==
  LET p == IndexOf(text, PhotoOpen, 1)
      q == IF p = 0 THEN 0 ELSE IndexOf(text, PhotoClose, p + Len(PhotoOpen))
  IN IF q = 0 THEN text
     ELSE SubSeq(text, 1, p - 1) \o PhotoOpen \o RedactedMark \o PhotoClose
          \o SubSeq(text, q + Len(PhotoClose), Len(text))

\* rows whose name and department hold the characters of the Photo tags
NamePhotoTags == PhotoOpen \o <<"x">> \o PhotoClose
RedactNames == {NameA, PhotoOpen, NamePhotoTags, <<"&", "<">>, <<>>}
RedactDepts == {DeptD, PhotoClose, <<"'", ">">>}
RedactRows ==
  { ("Card No" :> CardC1 @@ "Name" :> n @@ "Dept" :> d @@ "ID" :> st) :
      n \in RedactNames, d \in RedactDepts, st \in {<<>>, StaffS1} }
RedactDirs == {NoFiles, SomeFiles, (CardC1 \o <<JPG>>) :> <<>>, (StaffS1 \o <<JPEG>>) :> PhotoBytes}

RedactInit ==
  /\ dirExists = TRUE
  /\ csvExists = TRUE
  /\ rows \in {<<r>> : r \in RedactRows}
  /\ files \in RedactDirs
  /\ InitEngine

\* the photo step, the envelope and the soap_request event of one row, with
\* the envelope as the text that is posted and logged
LogSoapRequest ==
  /\ pc = "idle"
  /\ LET att == tryAttachPhoto(files, mapRowToProfile(rows[1]))
         envelope == EnvelopeText(buildAddCardEnvelope(att.profile))
     IN /\ profile' = att.profile
        /\ hasPhoto' = att.hasPhoto
        /\ httpLog' = Append(httpLog, [path |-> "job", index |-> 0, profile |-> att.profile,
                                       envelope |-> envelope])
        /\ jsonLog' = Append(jsonLog, [event |-> "soap_request", index |-> 0,
                                       cardNo |-> att.profile.CardNo, name |-> att.profile.Name,
                                       envelope |-> redactEnvelopeText(envelope)])
  /\ pc' = "logged"
  /\ UNCHANGED <<inputs, mode, i, overrideMap, result, textLog, previewOut, snap, hist>>
  /\ UNCHANGED pool
  /\ UNCHANGED <<overrides, client>>

RedactSpec == RedactInit /\ [][LogSoapRequest]_vars

\* ------------------------------------------------------------------ claims
BatchMode == mode \in {"job", "csv"}
Codes(errs) == [k \in 1..Len(errs) |-> errs[k].code]
RowLevelCodes == {"CARD_NO_MISSING", "HTTP_ERROR", "VAULT_ERROR", "REQUEST_FAILED"}
RowLevelErrors(errs) == SelectSeq(errs, LAMBDA e : e.code \in RowLevelCodes)
SentIndices == {httpLog[k].index : k \in {n \in 1..Len(httpLog) : httpLog[n].path \in {"job", "csv"}}}
Failed(h) == h.sent /\ h.registered = 0
Skipped(h) == ~h.sent

\* C1: a row whose CardNo is empty after mapping and override is skipped: no
\* request is issued for it, attempted grows by one, registered does not grow,
\* and exactly one CARD_NO_MISSING error (carrying its index) is recorded.
C1_EmptyCardNoSkipped ==
  BatchMode =>
    \A k \in 1..Len(hist) :
      hist[k].cardNo = <<>> =>
        /\ ~hist[k].sent
        /\ hist[k].index \notin SentIndices
        /\ hist[k].attempted = 1
        /\ hist[k].registered = 0
        /\ Codes(hist[k].errors) = <<"CARD_NO_MISSING">>
        /\ hist[k].errors[1].index = hist[k].index

\* C1 witness: a finished run in which a row was skipped, once because the
\* source has no CardNo and once because the override emptied it
C1_Witness ==
  /\ BatchMode /\ pc = "done"
  /\ \E k \in 1..Len(hist) : hist[k].cardNo = <<>> /\ ~hist[k].sent
  /\ \E k \in 1..Len(hist) : hist[k].sent

\* C2: when a batch run returns, attempted = registered + the number of rows
\* that ended failed or skipped, each row counted once, which is also the
\* number of row-level entries of errors[].
C2_BatchInvariant ==
  (BatchMode /\ pc = "done") =>
    /\ result.attempted
         = result.registered + Cardinality({k \in 1..Len(hist) : Failed(hist[k]) \/ Skipped(hist[k])})
    /\ result.attempted - result.registered = Len(RowLevelErrors(result.errors))
    /\ \A k \in 1..Len(hist) : hist[k].attempted = 1

\* C2 witness: a finished run with a failed row and a skipped row
C2_Witness ==
  /\ BatchMode /\ pc = "done"
  /\ result.attempted = 2
  /\ \E k \in 1..Len(hist) : Failed(hist[k])
  /\ \E k \in 1..Len(hist) : Skipped(hist[k])

\* C3: a row-level error never aborts the batch: once a row has ended with an
\* error, the run still processes every later row, writes its completion
\* event and returns the aggregate counts.
RowErrored == BatchMode /\ \E k \in 1..Len(hist) : hist[k].errors # <<>>
RunFinished ==
  /\ pc = "done"
  /\ Len(hist) = Len(rows)
  /\ \A k \in 1..Len(hist) : hist[k].index = k - 1
  /\ result.attempted = Len(rows)
  /\ jsonLog # <<>>
  /\ jsonLog[Len(jsonLog)].event = Ev(mode, "complete")
C3_ErrorNeverAborts == RowErrored ~> RunFinished

\* C3 witness: the first row ended with an error and a later row was processed
C3_Witness ==
  /\ RunFinished
  /\ Len(hist) >= 2
  /\ hist[1].errors # <<>>
  /\ hist[1].sent

\* C4: when a batch run returns, details[] holds exactly one entry per
\* attempted row, whatever the row-level error of the row.
C4_DetailPerRow ==
  (BatchMode /\ pc = "done") =>
    /\ Len(result.details) = result.attempted
    /\ \A k \in 1..Len(hist) : Len(hist[k].details) = 1

\* C5: a sent row is counted as a business success (registered incremented, no
\* error) if and only if the status is in [200,300) and the extracted error
\* code is exactly "0" or exactly "1".
ExactSuccess(resp) ==
  ~resp.threw /\ resp.httpStatus >= 200 /\ resp.httpStatus < 300
  /\ resp.errCode \in {<<"0">>, <<"1">>}
C5_ExactCodeSuccess ==
  BatchMode =>
    \A k \in 1..Len(hist) :
      hist[k].sent =>
        ((hist[k].registered = 1 /\ hist[k].errors = <<>>) <=> ExactSuccess(hist[k].resp))

\* C6: a sent row records at most one error; REQUEST_FAILED exactly when the
\* request threw, HTTP_ERROR exactly when a response arrived with a status
\* outside [200,300) (whatever its code), and for a 2xx response either the
\* row is a success without error or exactly one VAULT_ERROR is recorded.
C6_ErrorClassification ==
  BatchMode =>
    \A k \in 1..Len(hist) :
      hist[k].sent =>
        LET h == hist[k]
            in2xx == h.resp.httpStatus >= 200 /\ h.resp.httpStatus < 300
        IN /\ h.resp.threw => (Codes(h.errors) = <<"REQUEST_FAILED">> /\ h.registered = 0)
           /\ (~h.resp.threw /\ ~in2xx) => (Codes(h.errors) = <<"HTTP_ERROR">> /\ h.registered = 0)
           /\ (~h.resp.threw /\ in2xx) =>
                \/ (h.registered = 1 /\ h.errors = <<>>)
                \/ (h.registered = 0 /\ Codes(h.errors) = <<"VAULT_ERROR">>)

\* C6 witness: one run recorded two different row-level error codes for sent rows
C6_Witness ==
  /\ BatchMode
  /\ \E k \in 1..Len(hist) : hist[k].sent /\ Codes(hist[k].errors) = <<"HTTP_ERROR">>
                             /\ hist[k].resp.errCode = <<"0">>
  /\ \E k \in 1..Len(hist) : hist[k].sent /\ Codes(hist[k].errors) \in
                               {<<"VAULT_ERROR">>, <<"REQUEST_FAILED">>}

\* C7: on every path that sends a profile to the Vault endpoint, the CardNo of
\* the request is never longer than 10 characters.
C7_CardNoAtMost10 ==
  \A k \in 1..Len(httpLog) : Len(httpLog[k].profile.CardNo) <= 10

\* C8: a preview run issues no HTTP request, appends nothing to either log
\* file and leaves the source, the photo files and the counters of a batch run
\* untouched; its own result has registered = 0.
PreviewStep == previewJobToVault \/ previewCsvPathToVault
C8_PreviewFrame ==
  [][PreviewStep =>
       /\ UNCHANGED <<httpLog, jsonLog, textLog, result, inputs, hist, pc, i>>
       /\ previewOut'.ran
       /\ previewOut'.result.registered = 0]_vars

\* C8 witness: a preview over a source with rows returned while a batch run
\* over the same source already registered a card
C8_Witness ==
  /\ previewOut.ran
  /\ previewOut.result.attempted > 0
  /\ BatchMode
  /\ result.registered > 0
  /\ jsonLog # <<>>

\* C9: without overrides, the profile a preview returns in details[i].profile
\* is identical, Photo included, to the profile the batch run sends for row i.
C9_PreviewProfileEqualsSent ==
  (BatchMode /\ overrideMap = <<>> /\ previewOut.ran) =>
    \A k \in 1..Len(httpLog) :
      /\ Len(previewOut.result.details) > httpLog[k].index
      /\ previewOut.result.details[httpLog[k].index + 1].profile = httpLog[k].profile

\* C9 witness: a preview and a batch run without overrides that sent two
\* rows, one of them with a photo attached
C9_Witness ==
  /\ BatchMode /\ overrideMap = <<>> /\ previewOut.ran
  /\ Len(httpLog) >= 2
  /\ \E k \in 1..Len(httpLog) : httpLog[k].profile.Photo # Null

\* C10 as stated: AccessLevel is "00" exactly when the explicit value is empty
\* after trimming and MessHall derives no level; FaceAccessLevel and
\* LiftAccessLevel are "00" exactly when their own value is empty after trimming.
Mapped == pc = "mapped"
Row1 == rows[1]
Zero2 == <<"0", "0">>
FirstTruthy(row, hs) ==
  IF \E k \in 1..Len(hs) : Truthy(Cell(row, hs[k]))
  THEN Cell(row, hs[CHOOSE k \in 1..Len(hs) :
                      Truthy(Cell(row, hs[k])) /\ \A j \in 1..(k - 1) : ~Truthy(Cell(row, hs[j]))])
  ELSE Undef
\* the value the mapper resolves for a field, trimmed ("" when there is none)
SourceValue(row, hs, lastCounts) ==
  LET v == FirstTruthy(row, hs)
      last == Cell(row, hs[Len(hs)])
  IN IF v # Undef THEN Trim(v)
     ELSE IF lastCounts /\ last = Num0 THEN <<"0">> ELSE <<>>
MessHallLevel(row) ==
  LET v == FirstTruthy(row, MessHallHeaders)
      mh == IF v = Undef THEN <<>> ELSE ToLowerCase(Trim(v))
  IN IF mh = Labota THEN <<"1">> ELSE IF mh = Makarti THEN <<"2">> ELSE <<>>
IsBlank(v) == v \in {Undef, Null} \/ Trim(String(v)) = <<>>
FirstNonBlank(row, hs) ==
  IF \E k \in 1..Len(hs) : ~IsBlank(Cell(row, hs[k]))
  THEN Trim(String(Cell(row, hs[CHOOSE k \in 1..Len(hs) :
                                  /\ ~IsBlank(Cell(row, hs[k]))
                                  /\ \A j \in 1..(k - 1) : IsBlank(Cell(row, hs[j]))])))
  ELSE <<>>
C11_FirstNonBlankWins ==
  Mapped =>
    /\ profile.CardNo = Substring0(FirstNonBlank(Row1, CardNoHeaders), CardNoMax)
    /\ profile.Name = FirstNonBlank(Row1, NameHeaders)
    /\ profile.StaffNo = FirstNonBlank(Row1, StaffNoHeaders)
    /\ profile.Department = FirstNonBlank(Row1, DepartmentHeaders)

\* C12: the staff number is never used as a card number: a row whose
\* card-number columns are all empty maps to an empty CardNo whatever its
\* staff-number columns hold, and without a cardNo override it is skipped, not
\* sent.
CardColumnsBlank(row) == \A k \in 1..Len(CardNoHeaders) : IsBlank(Cell(row, CardNoHeaders[k]))
HasCardNoOverride(idx) == idx \in DOMAIN overrideMap /\ overrideMap[idx].cardNo # Undef
C12_StaffNoNeverCardNo ==
  BatchMode =>
    \A k \in 1..Len(hist) :
      LET row == rows[hist[k].index + 1]
      IN (CardColumnsBlank(row) /\ ~HasCardNoOverride(hist[k].index)) =>
           /\ mapRowToProfile(row).CardNo = <<>>
           /\ hist[k].cardNo = <<>>
           /\ ~hist[k].sent
           /\ hist[k].index \notin SentIndices
           /\ Codes(hist[k].errors) = <<"CARD_NO_MISSING">>

\* C12 witness: a finished run skipped a row that has a staff number (and a
\* photo file named after it) but no card number, and sent another row
C12_Witness ==
  /\ BatchMode /\ pc = "done"
  /\ files = SomeFiles
  /\ \E k \in 1..Len(hist) :
       /\ CardColumnsBlank(rows[hist[k].index + 1])
       /\ mapRowToProfile(rows[hist[k].index + 1]).StaffNo = StaffS1
       /\ ~HasCardNoOverride(hist[k].index)
       /\ ~hist[k].sent
  /\ \E k \in 1..Len(hist) : hist[k].sent

\* C13: the override step changes only CardNo (when the override carries
\* cardNo) and DownloadCard (when it carries downloadCard); every other field
\* is unchanged, a row without an override for its index is unchanged
\* altogether, and applying the same override twice gives the same profile as
\* applying it once.
Applied == pc \in {"applied", "applied2"}
OtherFields == DOMAIN snap \ {"CardNo", "DownloadCard"}
C13_OverrideFrameIdempotent ==
  Applied =>
    LET before == snap
        after == hist[1]
        has == i \in DOMAIN overrideMap
    IN /\ \A f \in OtherFields : after[f] = before[f]
       /\ ~has => after = before
       /\ (has /\ overrideMap[i].cardNo = Undef) => after.CardNo = before.CardNo
       /\ (has /\ overrideMap[i].cardNo # Undef) => after.CardNo = overrideMap[i].cardNo
       /\ (has /\ overrideMap[i].downloadCard = "absent")
            => after.DownloadCard = before.DownloadCard
       /\ (has /\ overrideMap[i].downloadCard # "absent")
            => after.DownloadCard = overrideMap[i].downloadCard
       /\ pc = "applied2" => hist[2] = hist[1]

\* C13 witness: an override carrying only cardNo was applied twice to a row
\* and changed its CardNo
C13_Witness ==
  /\ pc = "applied2"
  /\ i \in DOMAIN overrideMap
  /\ overrideMap[i].cardNo # Undef
  /\ overrideMap[i].downloadCard = "absent"
  /\ hist[1].CardNo # snap.CardNo
  /\ snap.Name # <<>>

\* C14: tryAttachPhoto tries {CardNo}.jpg, .jpeg, .png and then {StaffNo}.jpg,
\* .jpeg, .png; the first of them that exists in the directory is the one
\* attached, a StaffNo file is used only when no CardNo file exists, and the
\* call returns true if and only if it set profile.Photo.
Attached == pc = "attached"
ExtOrder == <<".jpg", ".jpeg", ".png">>
OrderedNames(base) ==
  IF base = <<>> THEN <<>> ELSE <<base \o <<ExtOrder[1]>>, base \o <<ExtOrder[2]>>,
                                 base \o <<ExtOrder[3]>>>>
ExpectedOrder == OrderedNames(snap.CardNo) \o OrderedNames(snap.StaffNo)
Existing == {k \in 1..Len(ExpectedOrder) : ExpectedOrder[k] \in DOMAIN files}
FirstHit == ExpectedOrder[CHOOSE k \in Existing : \A j \in Existing : k <= j]
PhotoSet == profile.Photo # snap.Photo
C14_PhotoCandidateOrder ==
  Attached =>
    /\ hasPhoto <=> Existing # {}
    /\ hasPhoto <=> PhotoSet
    /\ hasPhoto => profile.Photo = Base64(files[FirstHit])
    /\ (hasPhoto /\ \E f \in Range(OrderedNames(snap.CardNo)) : f \in DOMAIN files)
         => FirstHit \in Range(OrderedNames(snap.CardNo))
    /\ \A f \in DOMAIN snap \ {"Photo"} : profile[f] = snap[f]

\* C14 witness: files of both names exist, the .jpg of the CardNo is absent,
\* and the .jpeg of the CardNo was attached rather than the .jpg of the StaffNo
C14_Witness ==
  /\ Attached /\ hasPhoto
  /\ snap.CardNo = CardC1 /\ snap.StaffNo = StaffS1
  /\ (CardC1 \o <<JPG>>) \notin DOMAIN files
  /\ (CardC1 \o <<JPEG>>) \in DOMAIN files
  /\ (StaffS1 \o <<JPG>>) \in DOMAIN files
  /\ profile.Photo = Base64(BytesOf(CardC1 \o <<JPEG>>))

\* C15: after a batch run over a source has written its events, the progress
\* query for the same source returns completed = true and, for every row index
\* the run processed, the final state of the row (skipped, success or failed).
FinalState(h) == IF ~h.sent THEN "skipped" ELSE IF h.registered = 1 THEN "success" ELSE "failed"
FatalCodes == {"OUTPUT_NOT_FOUND", "CSV_NOT_FOUND", "NO_ROWS"}
ExpectedFatal ==
  IF ~dirExists THEN "OUTPUT_NOT_FOUND"
  ELSE IF mode = "csv" /\ ~csvExists THEN "CSV_NOT_FOUND"
  ELSE IF Len(rows) = 0 THEN "NO_ROWS"
  ELSE "none"
C16_FatalIngestion ==
  (BatchMode /\ pc = "done") =>
    /\ ExpectedFatal # "none" =>
         /\ Codes(result.errors) = <<ExpectedFatal>>
         /\ result.attempted = 0
         /\ result.registered = 0
         /\ result.details = <<>>
         /\ httpLog = <<>>
         /\ hist = <<>>
    /\ ExpectedFatal = "none" => \A k \in 1..Len(result.errors) : result.errors[k].code \notin FatalCodes

\* C16 witness: a run over an existing directory whose explicit file is
\* missing has returned
C16_Witness ==
  /\ mode = "csv" /\ pc = "done"
  /\ dirExists /\ ~csvExists
  /\ Codes(result.errors) = <<"CSV_NOT_FOUND">>

\* C17: during a batch run the number of HTTP requests in flight never exceeds
\* the configured worker count (6 when the caller gives none), and the request
\* of a row is started only after the mapping, override and photo steps of
\* that row are done.  (The requests are only ever appended to httpLog, so
\* the newest request stands for each of them in turn.)
UpdateMode == mode = "update"
SettledEvents == {"row_update_complete", "error_update"}
CountEvents(log, evs) == Cardinality({k \in 1..Len(log) : log[k].event \in evs})
RequestsInFlight ==
  IF UpdateMode THEN Len(httpLog) - CountEvents(updateLog, SettledEvents)
  ELSE Len(httpLog) - Cardinality({k \in 1..Len(hist) : hist[k].sent})
WorkerCount == IF UpdateMode /\ concurrency > 0 THEN concurrency ELSE 6
RunLog == IF UpdateMode THEN updateLog ELSE jsonLog
MappedEvent == IF UpdateMode THEN "row_mapped_update" ELSE Ev(mode, "row_mapped")
RequestEvent == IF UpdateMode THEN "soap_request_update" ELSE Ev(mode, "soap_request")
PreparedProfile(idx) ==
  tryAttachPhoto(files, ApplyOverride(mapRowToProfile(rows[idx + 1]), overrideMap, idx)).profile
C17_BoundedInFlight ==
  (UpdateMode \/ BatchMode) =>
    /\ LET n == RequestsInFlight
       IN /\ n >= 0
          /\ n <= WorkerCount
          /\ UpdateMode => n = Cardinality(InFlight)
    /\ httpLog # <<>> =>
         httpLog[Len(httpLog)].profile = PreparedProfile(httpLog[Len(httpLog)].index)
    /\ \A q \in 1..Len(RunLog) :
         RunLog[q].event = RequestEvent =>
           \E p \in 1..(q - 1) : /\ RunLog[p].event = MappedEvent
                                  /\ RunLog[p].index = RunLog[q].index

\* C17 witness: a run without a worker count has six requests in flight and
\* a seventh row waiting for a free worker
C17_Witness ==
  /\ UpdateMode /\ pc = "pool"
  /\ concurrency = 0
  /\ RequestsInFlight = 6
  /\ i < Len(rows)

\* C18: every step of a row (row mapped, override applied, card number
\* missing, photo candidates, photo attach result, request sent, response
\* received, error) and the batch completion is appended to both logs: for every
\* event of row i in the structured log there is a corresponding line of row i
\* in the text log.
RowSteps ==
  { <<"row_mapped", "row_mapped">>, <<"override_applied", "override_applied">>,
    <<"card_no_missing", "card_no_missing">>, <<"photo_candidates", "photo_candidates">>,
    <<"photo_attach_result", "photo_attach_result">>, <<"soap_request", "post">>,
    <<"soap_response", "resp">>, <<"error", "request_failed">> }
HasLine(line, idx) ==
  \E n \in 1..Len(textLog) :
    /\ textLog[n].line = line
    /\ "index" \in DOMAIN textLog[n]
    /\ textLog[n].index = idx
C18_BothLogs ==
  BatchMode =>
    /\ \A k \in 1..Len(jsonLog) : \A st \in RowSteps :
         (jsonLog[k].event = Ev(mode, st[1]) \/ jsonLog[k].event = st[1])
           => HasLine(st[2], jsonLog[k].index)
    /\ (\E k \in 1..Len(jsonLog) : jsonLog[k].event = Ev(mode, "complete"))
         => \E n \in 1..Len(textLog) : textLog[n].line = "complete"

\* C19: no implicit retries: within one batch run each row causes at most one
\* HTTP request, whatever the outcome of that request (non-2xx status,
\* rejecting business code or network exception).
RequestsOf(idx) == {k \in 1..Len(httpLog) : httpLog[k].index = idx}
C19_NoRetry ==
  BatchMode =>
    /\ \A idx \in 0..(Len(rows) - 1) : Cardinality(RequestsOf(idx)) <= 1
    /\ \A k \in 1..Len(hist) :
         Cardinality(RequestsOf(hist[k].index)) = IF hist[k].sent THEN 1 ELSE 0
    /\ Len(httpLog) <= result.attempted

\* C19 witness: a finished run in which one request threw and another got a
\* non-2xx status, each row having been sent once
C19_Witness ==
  /\ BatchMode /\ pc = "done"
  /\ Len(httpLog) = 2
  /\ \E k \in 1..Len(hist) : hist[k].sent /\ hist[k].resp.threw
  /\ \E k \in 1..Len(hist) : hist[k].sent /\ ~hist[k].resp.threw /\ hist[k].resp.httpStatus = 500

\* C20: the soap_request event never holds the photo payload: for a row sent
\* with a photo the logged envelope is the posted envelope with the content of
\* the Photo element replaced by the redaction marker, and nothing else of the
\* envelope is changed.
Logged == pc = "logged"
PostedEnvelope == httpLog[1].envelope
LoggedEnvelope == jsonLog[1].envelope
SentEnv == buildAddCardEnvelope(profile)
HasPayload == Truthy(profile.Photo)
C20_PhotoRedacted ==
  Logged =>
    /\ PostedEnvelope = EnvelopeHead(SentEnv) \o PhotoText(SentEnv.Photo) \o EnvelopeTail(SentEnv)
    /\ HasPayload =>
         /\ LoggedEnvelope = EnvelopeHead(SentEnv) \o PhotoOpen \o RedactedMark \o PhotoClose
                              \o EnvelopeTail(SentEnv)
         /\ \A k \in 1..Len(LoggedEnvelope) : LoggedEnvelope[k] \notin Range(profile.Photo)
    /\ ~HasPayload => LoggedEnvelope = PostedEnvelope
    /\ LoggedEnvelope = EnvelopeText(redactEnvelope(SentEnv))

\* C20 witness: a row whose name spells a Photo element was sent with a photo
C20_Witness ==
  /\ Logged
  /\ HasPayload
  /\ profile.Name = NamePhotoTags
  /\ LoggedEnvelope # PostedEnvelope

\* C21: an override whose cardNo is present replaces the mapped CardNo by its
\* trimmed value cut to 10 characters, also when that value is empty: a row
\* whose source has a CardNo and whose override carries an empty or
\* whitespace-only cardNo is skipped with CARD_NO_MISSING and no request is
\* sent for it.
GivenOverrides == overrides
EntriesFor(idx) ==
  {n \in 1..Len(GivenOverrides) :
     GivenOverrides[n].indexIsNumber /\ GivenOverrides[n].index = idx}
GivenCardNo(idx) ==
  IF EntriesFor(idx) = {} THEN Undef
  ELSE GivenOverrides[CHOOSE n \in EntriesFor(idx) : \A o \in EntriesFor(idx) : o <= n].cardNo
C21_OverrideCardNoReplaces ==
  BatchMode =>
    \A k \in 1..Len(hist) :
      LET h == hist[k]
          given == GivenCardNo(h.index)
      IN given # Undef =>
           /\ h.cardNo = Substring0(Trim(given), CardNoMax)
           /\ Len(h.cardNo) <= CardNoMax
           /\ Trim(given) = <<>> =>
                /\ ~h.sent
                /\ h.index \notin SentIndices
                /\ Codes(h.errors) = <<"CARD_NO_MISSING">>

\* C21 witness: a row whose source has a CardNo was skipped because its
\* override carries a whitespace-only cardNo
C21_Witness ==
  /\ BatchMode
  /\ \E k \in 1..Len(hist) :
       /\ mapRowToProfile(rows[hist[k].index + 1]).CardNo # <<>>
       /\ GivenCardNo(hist[k].index) = <<" ">>
       /\ ~hist[k].sent

\* C22: the existence-only check agrees with the attaching resolver: for every
\* directory content and every CardNo/StaffNo pair photoExists returns true
\* exactly when tryAttachPhoto does, and photoExists reads no file and changes
\* no profile.
Checked == pc = "checked"
C22_PhotoExistsAgrees ==
  Checked =>
    /\ hist[1].found <=> hasPhoto
    /\ hist[1].found <=> tryAttachPhoto(files, snap).hasPhoto
    /\ hist[1].reads = <<>>
    /\ hasPhoto => Len(hist[1].attachReads) = 1
    /\ profile = tryAttachPhoto(files, snap).profile

\* C22 witness: only a file named after the StaffNo exists; both calls found it
\* and only tryAttachPhoto read it
C22_Witness ==
  /\ Checked
  /\ snap.CardNo = CardC1 /\ snap.StaffNo = StaffS1
  /\ \A f \in Range(NamesFor(CardC1)) : f \notin DOMAIN files
  /\ hist[1].found /\ hasPhoto
  /\ hist[1].attachReads = <<StaffS1 \o <<PNG>>>>

\* C23: the progress query reports completed = true for a source only when the
\* update run currently executing over it has finished: while rows of a run
\* are still executing it does not report completed = true, also when the log
\* of the source holds the events of an earlier finished run.
RunExecuting == mode = "update" /\ pc = "pool"
C23_CompletedOnlyWhenFinished == RunExecuting => ~UpdateProgressCsv.completed

\* C24: the progress fold tolerates a log read while a write is in flight: a
\* line that is empty, cut short or not valid JSON is ignored, the rows and
\* completed values returned are those of folding the remaining well-formed
\* lines in order, and the query does not fail because of such a line.
Asked == progress.asked
WellFormed(line) == \E e \in FoldEvents : Trim(line) = Stringify(e)
EventOf(line) == CHOOSE e \in FoldEvents : Trim(line) = Stringify(e)
Ignorable(line) == Trim(line) = <<>> \/ Trim(line) \in JunkLines
WellFormedEvents ==
  LET kept == SelectSeq(logText, WellFormed)
  IN [k \in 1..Len(kept) |-> EventOf(kept[k])]
C24_ToleratesBrokenLines ==
  (Asked /\ \A k \in 1..Len(logText) : WellFormed(logText[k]) \/ Ignorable(logText[k])) =>
    /\ progress.ok
    /\ progress.rows = FoldProgress(WellFormedEvents).rows
    /\ progress.completed = FoldProgress(WellFormedEvents).completed

\* C24 witness: a log with a line that is no JSON, a well-formed line and a
\* last line cut short was folded to the rows of the well-formed line
C24_Witness ==
  /\ Asked
  /\ Len(logText) = 3
  /\ logText[1] = <<"x">>
  /\ WellFormed(logText[2])
  /\ logText[3] = CutLine
  /\ progress.ok
  /\ DOMAIN progress.rows # {}

\* C25: for any sequence of log events, every row entry the progress query
\* returns carries a state, and the state is one of executing, success, failed
\* or skipped.
RowStates == {"executing", "success", "failed", "skipped"}
C25_EveryEntryHasState ==
  (Asked /\ progress.ok) =>
    \A idx \in DOMAIN progress.rows : progress.rows[idx].state \in RowStates

\* C26: a batch run that wrote its start event writes exactly one completion
\* event, after all of its row events, also when the source has no rows and
\* when every row fails: when the run returns, the completion event is the
\* last line of the structured log and the only one of its kind.
StartWritten == \E k \in 1..Len(jsonLog) : jsonLog[k].event = Ev(mode, "start")
CompletionEvents == {k \in 1..Len(jsonLog) : jsonLog[k].event = Ev(mode, "complete")}
C26_StartThenOneCompletion ==
  (BatchMode /\ pc = "done" /\ StartWritten) =>
    /\ Cardinality(CompletionEvents) = 1
    /\ jsonLog[Len(jsonLog)].event = Ev(mode, "complete")

\* C27: the progress polling started by handleExecuteUpdate stops once the
\* batch request has ended, whether it succeeded, returned a non-OK status or
\* threw: after handleExecuteUpdate has finished no further progress request
\* is sent for the run.
C27_PollingStops == [][ui.pc = "finished" => ui'.polls = ui.polls]_vars

\* C28: when a batch run returns, withPhoto + withoutPhoto equals the number of
\* rows for which a request was attempted, that is attempted minus the rows
\* skipped for a missing CardNo; a skipped row is counted in neither.
SkippedRows == {k \in 1..Len(hist) : Skipped(hist[k])}
C28_PhotoCountsCoverSentRows ==
  (BatchMode /\ pc = "done") =>
    /\ result.withPhoto + result.withoutPhoto = result.attempted - Cardinality(SkippedRows)
    /\ result.withPhoto + result.withoutPhoto = Cardinality(SentIndices)
    /\ \A k \in 1..Len(hist) : hist[k].photoCounted = IF Skipped(hist[k]) THEN 0 ELSE 1

\* C28 witness: a finished run skipped a row and sent a row with a photo
C28_Witness ==
  /\ BatchMode /\ pc = "done"
  /\ SkippedRows # {}
  /\ result.withPhoto >= 1
  /\ result.attempted = result.withPhoto + result.withoutPhoto + Cardinality(SkippedRows)
  /\ result.attempted >= 2

\* C29: when the overrides list holds several entries with the same index,
\* only the last one takes effect and it replaces the earlier ones entirely: a
\* cardNo or downloadCard only an earlier entry gives is not applied.  Entries
\* whose index is not a number are ignored.
LastEntry(idx) ==
  GivenOverrides[CHOOSE n \in EntriesFor(idx) : \A o \in EntriesFor(idx) : o <= n]
C29_LastOverrideWins ==
  Applied =>
    /\ DOMAIN overrideMap
         = {overrides[n].index : n \in {o \in 1..Len(overrides) : overrides[o].indexIsNumber}}
    /\ EntriesFor(i) = {} => hist[1] = snap
    /\ EntriesFor(i) # {} =>
         /\ hist[1].CardNo = IF LastEntry(i).cardNo = Undef THEN snap.CardNo
                              ELSE Substring0(Trim(LastEntry(i).cardNo), CardNoMax)
         /\ hist[1].DownloadCard = IF LastEntry(i).downloadCard = "absent"
                                    THEN snap.DownloadCard
                                    ELSE LastEntry(i).downloadCard
         /\ \A f \in OtherFields : hist[1][f] = snap[f]

\* C29 witness: two entries for the row, the earlier with a cardNo and a
\* downloadCard, the later with neither: the row is left as it was mapped
C29_Witness ==
  /\ Applied
  /\ Cardinality(EntriesFor(i)) = 2
  /\ overrides[1].cardNo = CardC2 /\ overrides[1].downloadCard = "false"
  /\ LastEntry(i).cardNo = Undef /\ LastEntry(i).downloadCard = "absent"
  /\ snap.CardNo = CardC1
  /\ hist[1] = snap

\* C30: a batch that completed with row-level errors is answered as
\* completed, not as failed: whenever the engine returned a result with
\* attempted > 0, the answer of /api/vault/register, /api/vault/register-csv
\* and /api/vault/update-csv has success = true and carries the whole errors[]
\* list, however many rows failed.
Answered == response.sent
C30_PartialFailureIsSuccess ==
  (Answered /\ result.attempted > 0) =>
    /\ response.status = 200
    /\ response.body.success = TRUE
    /\ response.body.errors = result.errors
    /\ response.body.attempted = result.attempted
    /\ response.body.details = result.details

\* C30 witness: every row of a registration run failed or was skipped and the
\* answer says success with one error per row
C30_Witness ==
  /\ Answered
  /\ BatchMode
  /\ result.attempted = 2
  /\ result.registered = 0
  /\ Len(response.body.errors) = 2
  /\ response.body.success = TRUE

====
